---- MODULE Spec2Model ----
(***************************************************************************)
(* Catalog parser of assignment_10 (convert_products.py) and the catalog   *)
(* hand-off to the search app (assignment_10.py, load_products).           *)
(*                                                                         *)
(* A Python str is modelled as a sequence of characters.  A character is   *)
(* a one-element name: ASCII characters stand for themselves, Vietnamese   *)
(* letters are written in Telex ("ar" is a-hook, "aar" a-circumflex-hook,  *)
(* "os" o-acute, "dd" d-stroke, "uwf" u-horn-grave, ...), and "dq", "bs",  *)
(* "tab", "nl" are the double quote, the backslash, the tab and the line   *)
(* feed.                                                                   *)
(***************************************************************************)
EXTENDS Integers, Sequences, FiniteSets, TLC

\* Largest number of lines of untitled_products.txt that a run reads.
MaxLines == 2

(***************************************************************************)
(* String literals of the source.                                          *)
(***************************************************************************)
\* "Sản phẩm"
Marker == <<"S", "ar", "n", " ", "p", "h", "aar", "m">>

\* "Sản phẩm "
MarkerSp == <<"S", "ar", "n", " ", "p", "h", "aar", "m", " ">>

\* " có giá "
CoGia == <<" ", "c", "os", " ", "g", "i", "as", " ">>

\* "đ"
Dong == <<"dd">>

\* "(Giảm"
OpenGiam == <<"(", "G", "i", "ar", "m">>

\* "%"
Percent == <<"%">>

\* "từ"
Tu == <<"t", "uwf">>

\* "đ)"
DongClose == <<"dd", ")">>

\* "prod_"
IdPrefix == <<"p", "r", "o", "d", "_">>

\* "Sản phẩm "
DescHead == <<"S", "ar", "n", " ", "p", "h", "aar", "m", " ">>

\* " thuộc danh mục "
DescCat == <<" ", "t", "h", "u", "ooj", "c", " ", "d", "a", "n", "h", " ", "m", "uj", "c", " ">>

\* " với giá "
DescPrice == <<" ", "v", "ows", "i", " ", "g", "i", "as", " ">>

\* "Khác"
Khac == <<"K", "h", "as", "c">>

\* "Áo thun"
AoThun == <<"AS", "o", " ", "t", "h", "u", "n">>

\* "Quần"
Quan == <<"Q", "u", "aaf", "n">>

\* "Áo polo"
AoPolo == <<"AS", "o", " ", "p", "o", "l", "o">>

\* "Áo sơ mi"
AoSoMi == <<"AS", "o", " ", "s", "ow", " ", "m", "i">>

\* "Áo khoác"
AoKhoac == <<"AS", "o", " ", "k", "h", "o", "as", "c">>

\* "Đồ lót"
DoLot == <<"DD", "oof", " ", "l", "os", "t">>

\* "Váy"
Vay == <<"V", "as", "y">>

\* "Áo bra"
AoBra == <<"AS", "o", " ", "b", "r", "a">>

\* "Legging"
Legging == <<"L", "e", "g", "g", "i", "n", "g">>

\* "Tất"
Tat == <<"T", "aas", "t">>

KwAoThun == {<<"as", "o", " ", "t", "h", "u", "n">>,
    <<"t", "s", "h", "i", "r", "t">>,
    <<"t", "-", "s", "h", "i", "r", "t">>}

KwQuan == {<<"q", "u", "aaf", "n">>,
    <<"s", "h", "o", "r", "t", "s">>,
    <<"p", "a", "n", "t", "s">>}

KwAoPolo == {<<"as", "o", " ", "p", "o", "l", "o">>,
    <<"p", "o", "l", "o">>}

KwAoSoMi == {<<"as", "o", " ", "s", "ow", " ", "m", "i">>,
    <<"s", "h", "i", "r", "t">>}

KwAoKhoac == {<<"as", "o", " ", "k", "h", "o", "as", "c">>,
    <<"j", "a", "c", "k", "e", "t">>,
    <<"h", "o", "o", "d", "i", "e">>,
    <<"n", "ir">>}

KwDoLot == {<<"q", "u", "aaf", "n", " ", "l", "os", "t">>,
    <<"t", "r", "u", "n", "k">>,
    <<"b", "r", "i", "e", "f", "s">>}

KwVay == {<<"v", "as", "y">>,
    <<"d", "r", "e", "s", "s">>}

KwAoBra == {<<"b", "r", "a">>,
    <<"as", "o", " ", "b", "r", "a">>}

KwLegging == {<<"l", "e", "g", "g", "i", "n", "g">>,
    <<"t", "i", "g", "h", "t", "s">>}

KwTat == {<<"t", "aas", "t">>,
    <<"s", "o", "c", "k", "s">>}

UpperToLower ==
    ("A" :> "a") @@ ("B" :> "b") @@ ("C" :> "c") @@ ("D" :> "d") @@
    ("E" :> "e") @@ ("F" :> "f") @@ ("G" :> "g") @@ ("H" :> "h") @@
    ("I" :> "i") @@ ("J" :> "j") @@ ("K" :> "k") @@ ("L" :> "l") @@
    ("M" :> "m") @@ ("N" :> "n") @@ ("O" :> "o") @@ ("P" :> "p") @@
    ("Q" :> "q") @@ ("R" :> "r") @@ ("S" :> "s") @@ ("T" :> "t") @@
    ("U" :> "u") @@ ("V" :> "v") @@ ("W" :> "w") @@ ("X" :> "x") @@
    ("Y" :> "y") @@ ("Z" :> "z") @@ ("AS" :> "as") @@ ("OS" :> "os") @@
    ("AW" :> "aw") @@ ("DD" :> "dd") @@ ("AAF" :> "aaf")

\* mutation of SampleLines: no built-in lines
SampleLines_None == <<>>

\* product_lines of lines 12-23
SampleLines == <<
    <<"S", "ar", "n", " ", "p", "h", "aar", "m", " ", "T", "s", "h", "i", "r", "t", " ", "c", "h", "aj", "y", " ", "b", "ooj", " ", "A", "i", "r", "R", "u", "s", "h", " ", "G", "r", "a", "d", "i", "e", "n", "t", " ", "c", "os", " ", "g", "i", "as", " ", "1", "9", "9", ".", "0", "0", "0", "dd">>,
    <<"S", "ar", "n", " ", "p", "h", "aar", "m", " ", "C", "o", "m", "b", "o", " ", "3", " ", "Q", "u", "aaf", "n", " ", "L", "os", "t", " ", "N", "a", "m", " ", "T", "r", "u", "n", "k", " ", "E", "x", "c", "o", "o", "l", " ", "c", "os", " ", "g", "i", "as", " ", "2", "8", "9", ".", "0", "0", "0", "dd", " ", "(", "G", "i", "ar", "m", " ", "1", "2", "%", " ", "t", "uwf", " ", "3", "2", "9", ".", "0", "0", "0", "dd", ")">>,
    <<"S", "ar", "n", " ", "p", "h", "aar", "m", " ", "S", "h", "o", "r", "t", "s", " ", "t", "h", "eer", " ", "t", "h", "a", "o", " ", "n", "a", "m", " ", "6", " ", "i", "n", "c", "h", " ", "dd", "a", "i", " ", "s", "i", "ee", "u", " ", "c", "o", " ", "g", "i", "ax", "n", " ", "c", "os", " ", "g", "i", "as", " ", "2", "3", "9", ".", "0", "0", "0", "dd">>,
    <<"S", "ar", "n", " ", "p", "h", "aar", "m", " ", "Q", "u", "aaf", "n", " ", "D", "af", "i", " ", "N", "a", "m", " ", "K", "a", "k", "i", " ", "E", "x", "c", "o", "o", "l", " ", "c", "os", " ", "g", "i", "as", " ", "4", "1", "9", ".", "0", "0", "0", "dd", " ", "(", "G", "i", "ar", "m", " ", "1", "6", "%", " ", "t", "uwf", " ", "4", "9", "9", ".", "0", "0", "0", "dd", ")">>,
    <<"S", "ar", "n", " ", "p", "h", "aar", "m", " ", "AS", "o", " ", "b", "a", " ", "l", "oox", " ", "n", "a", "m", " ", "m", "awj", "c", " ", "t", "r", "o", "n", "g", " ", "t", "h", "o", "as", "n", "g", " ", "k", "h", "is", " ", "n", "h", "a", "n", "h", " ", "k", "h", "oo", " ", "E", "x", "c", "o", "o", "l", " ", "c", "os", " ", "g", "i", "as", " ", "9", "9", ".", "0", "0", "0", "dd">>,
    <<"S", "ar", "n", " ", "p", "h", "aar", "m", " ", "AS", "o", " ", "T", "h", "u", "n", " ", "G", "y", "m", " ", "C", "o", "t", "t", "o", "n", " ", "O", "v", "e", "r", "s", "i", "z", "e", "d", " ", "C", "o", "m", "f", "o", "r", "t", " ", "W", "a", "s", "h", "e", "d", " ", "c", "os", " ", "g", "i", "as", " ", "2", "9", "9", ".", "0", "0", "0", "dd">>,
    <<"S", "ar", "n", " ", "p", "h", "aar", "m", " ", "AS", "o", " ", "t", "h", "u", "n", " ", "c", "h", "aj", "y", " ", "b", "ooj", " ", "dq", "V", "i", "eej", "t", " ", "N", "a", "m", " ", "t", "i", "ees", "n", " ", "b", "uw", "ows", "c", "dq", " ", "c", "os", " ", "g", "i", "as", " ", "2", "3", "9", ".", "0", "0", "0", "dd">>,
    <<"S", "ar", "n", " ", "p", "h", "aar", "m", " ", "AS", "o", " ", "T", "h", "u", "n", " ", "N", "a", "m", " ", "V", "i", "e", "t", " ", "D", "e", "v", "i", "l", "s", " ", "-", " ", "B", "aaj", "t", " ", "N", "h", "uw", " ", "M", "a", "n", " ", "c", "os", " ", "g", "i", "as", " ", "3", "2", "9", ".", "0", "0", "0", "dd", " ", "(", "G", "i", "ar", "m", " ", "1", "5", "%", " ", "t", "uwf", " ", "3", "8", "9", ".", "0", "0", "0", "dd", ")">>,
    <<"S", "ar", "n", " ", "p", "h", "aar", "m", " ", "AS", "o", " ", "T", "h", "u", "n", " ", "N", "a", "m", " ", "V", "i", "e", "t", " ", "D", "e", "v", "i", "l", "s", " ", "-", " ", "AW", "n", " ", "M", "af", "y", " ", "Q", "u", "as", " ", "K", "h", "uws", " ", "c", "os", " ", "g", "i", "as", " ", "3", "2", "9", ".", "0", "0", "0", "dd", " ", "(", "G", "i", "ar", "m", " ", "1", "5", "%", " ", "t", "uwf", " ", "3", "8", "9", ".", "0", "0", "0", "dd", ")">>,
    <<"S", "ar", "n", " ", "p", "h", "aar", "m", " ", "AS", "o", " ", "T", "h", "u", "n", " ", "N", "a", "m", " ", "V", "i", "e", "t", " ", "D", "e", "v", "i", "l", "s", " ", "-", " ", "M", "uf", "a", " ", "S", "a", "u", " ", "V", "oo", " ", "DD", "ij", "c", "h", " ", "c", "os", " ", "g", "i", "as", " ", "3", "2", "9", ".", "0", "0", "0", "dd", " ", "(", "G", "i", "ar", "m", " ", "1", "5", "%", " ", "t", "uwf", " ", "3", "8", "9", ".", "0", "0", "0", "dd", ")">> >>

\* lines that untitled_products.txt can hold: product lines of every
\* category, discount clauses of every shape, and lines the loop skips
FileLines == {
    \* "Sản phẩm Tshirt Shorts có giá 199.000đ\n"
    <<"S", "ar", "n", " ", "p", "h", "aar", "m", " ", "T", "s", "h", "i", "r", "t", " ", "S", "h", "o", "r", "t", "s", " ", "c", "os", " ", "g", "i", "as", " ", "1", "9", "9", ".", "0", "0", "0", "dd", "nl">>,
    \* "Sản phẩm Tshirt Shorts có giá 5đ (Giảm 15% từ 6đ)\n"
    <<"S", "ar", "n", " ", "p", "h", "aar", "m", " ", "T", "s", "h", "i", "r", "t", " ", "S", "h", "o", "r", "t", "s", " ", "c", "os", " ", "g", "i", "as", " ", "5", "dd", " ", "(", "G", "i", "ar", "m", " ", "1", "5", "%", " ", "t", "uwf", " ", "6", "dd", ")", "nl">>,
    \* "Sản phẩm TSHIRT SHORTS có giá 7đ\n"
    <<"S", "ar", "n", " ", "p", "h", "aar", "m", " ", "T", "S", "H", "I", "R", "T", " ", "S", "H", "O", "R", "T", "S", " ", "c", "os", " ", "g", "i", "as", " ", "7", "dd", "nl">>,
    \* "Sản phẩm QUẦN LÓT Trunk có giá 289.000đ (Giảm 12% từ 329.000đ)\n"
    <<"S", "ar", "n", " ", "p", "h", "aar", "m", " ", "Q", "U", "AAF", "N", " ", "L", "OS", "T", " ", "T", "r", "u", "n", "k", " ", "c", "os", " ", "g", "i", "as", " ", "2", "8", "9", ".", "0", "0", "0", "dd", " ", "(", "G", "i", "ar", "m", " ", "1", "2", "%", " ", "t", "uwf", " ", "3", "2", "9", ".", "0", "0", "0", "dd", ")", "nl">>,
    \* "Sản phẩm Trunk có giá 1.000đ\n"
    <<"S", "ar", "n", " ", "p", "h", "aar", "m", " ", "T", "r", "u", "n", "k", " ", "c", "os", " ", "g", "i", "as", " ", "1", ".", "0", "0", "0", "dd", "nl">>,
    \* "Sản phẩm Polo Shirt có giá 1,000đ\n"
    <<"S", "ar", "n", " ", "p", "h", "aar", "m", " ", "P", "o", "l", "o", " ", "S", "h", "i", "r", "t", " ", "c", "os", " ", "g", "i", "as", " ", "1", ",", "0", "0", "0", "dd", "nl">>,
    \* "Sản phẩm Shirt có giá 2đ\n"
    <<"S", "ar", "n", " ", "p", "h", "aar", "m", " ", "S", "h", "i", "r", "t", " ", "c", "os", " ", "g", "i", "as", " ", "2", "dd", "nl">>,
    \* "Sản phẩm Hoodie có giá 2đ\n"
    <<"S", "ar", "n", " ", "p", "h", "aar", "m", " ", "H", "o", "o", "d", "i", "e", " ", "c", "os", " ", "g", "i", "as", " ", "2", "dd", "nl">>,
    \* "Sản phẩm Dress có giá 2đ\n"
    <<"S", "ar", "n", " ", "p", "h", "aar", "m", " ", "D", "r", "e", "s", "s", " ", "c", "os", " ", "g", "i", "as", " ", "2", "dd", "nl">>,
    \* "Sản phẩm Bra \"A\\B\" có giá 2đ\n"
    <<"S", "ar", "n", " ", "p", "h", "aar", "m", " ", "B", "r", "a", " ", "dq", "A", "bs", "B", "dq", " ", "c", "os", " ", "g", "i", "as", " ", "2", "dd", "nl">>,
    \* "Sản phẩm Legging có giá 2đ\n"
    <<"S", "ar", "n", " ", "p", "h", "aar", "m", " ", "L", "e", "g", "g", "i", "n", "g", " ", "c", "os", " ", "g", "i", "as", " ", "2", "dd", "nl">>,
    \* "Sản phẩm Socks có giá 2đ\n"
    <<"S", "ar", "n", " ", "p", "h", "aar", "m", " ", "S", "o", "c", "k", "s", " ", "c", "os", " ", "g", "i", "as", " ", "2", "dd", "nl">>,
    \* "Sản phẩm Balo có giá 2đ\n"
    <<"S", "ar", "n", " ", "p", "h", "aar", "m", " ", "B", "a", "l", "o", " ", "c", "os", " ", "g", "i", "as", " ", "2", "dd", "nl">>,
    \* "Sản phẩm Balo có giá 100đ (Giảm 0% từ 200đ)\n"
    <<"S", "ar", "n", " ", "p", "h", "aar", "m", " ", "B", "a", "l", "o", " ", "c", "os", " ", "g", "i", "as", " ", "1", "0", "0", "dd", " ", "(", "G", "i", "ar", "m", " ", "0", "%", " ", "t", "uwf", " ", "2", "0", "0", "dd", ")", "nl">>,
    \* "Sản phẩm Balo có giá 100đ (Giảm 10% từ 100đ)\n"
    <<"S", "ar", "n", " ", "p", "h", "aar", "m", " ", "B", "a", "l", "o", " ", "c", "os", " ", "g", "i", "as", " ", "1", "0", "0", "dd", " ", "(", "G", "i", "ar", "m", " ", "1", "0", "%", " ", "t", "uwf", " ", "1", "0", "0", "dd", ")", "nl">>,
    \* "Sản phẩm Balo có giá 200đ (Giảm 10% từ 100đ)\n"
    <<"S", "ar", "n", " ", "p", "h", "aar", "m", " ", "B", "a", "l", "o", " ", "c", "os", " ", "g", "i", "as", " ", "2", "0", "0", "dd", " ", "(", "G", "i", "ar", "m", " ", "1", "0", "%", " ", "t", "uwf", " ", "1", "0", "0", "dd", ")", "nl">>,
    \* "Sản phẩm Balo có giá 100đ (Giảm 150% từ 200đ)\n"
    <<"S", "ar", "n", " ", "p", "h", "aar", "m", " ", "B", "a", "l", "o", " ", "c", "os", " ", "g", "i", "as", " ", "1", "0", "0", "dd", " ", "(", "G", "i", "ar", "m", " ", "1", "5", "0", "%", " ", "t", "uwf", " ", "2", "0", "0", "dd", ")", "nl">>,
    \* "Sản phẩm Balo có giá 100đ (Giảm 10 từ 200đ)\n"
    <<"S", "ar", "n", " ", "p", "h", "aar", "m", " ", "B", "a", "l", "o", " ", "c", "os", " ", "g", "i", "as", " ", "1", "0", "0", "dd", " ", "(", "G", "i", "ar", "m", " ", "1", "0", " ", "t", "uwf", " ", "2", "0", "0", "dd", ")", "nl">>,
    \* "Sản phẩm Balo có giá 100đ(Giảm10%từ200đ)\n"
    <<"S", "ar", "n", " ", "p", "h", "aar", "m", " ", "B", "a", "l", "o", " ", "c", "os", " ", "g", "i", "as", " ", "1", "0", "0", "dd", "(", "G", "i", "ar", "m", "1", "0", "%", "t", "uwf", "2", "0", "0", "dd", ")", "nl">>,
    \* "\tSản phẩm Balo có giá 100đ \n"
    <<"tab", "S", "ar", "n", " ", "p", "h", "aar", "m", " ", "B", "a", "l", "o", " ", "c", "os", " ", "g", "i", "as", " ", "1", "0", "0", "dd", " ", "nl">>,
    \* "Sản phẩm  Balo  có giá 100đ\n"
    <<"S", "ar", "n", " ", "p", "h", "aar", "m", " ", " ", "B", "a", "l", "o", " ", " ", "c", "os", " ", "g", "i", "as", " ", "1", "0", "0", "dd", "nl">>,
    \* "Sản phẩm A có giá 1đ B có giá 2đ\n"
    <<"S", "ar", "n", " ", "p", "h", "aar", "m", " ", "A", " ", "c", "os", " ", "g", "i", "as", " ", "1", "dd", " ", "B", " ", "c", "os", " ", "g", "i", "as", " ", "2", "dd", "nl">>,
    \* "Sản phẩmX Sản phẩm Balo có giá 3đ\n"
    <<"S", "ar", "n", " ", "p", "h", "aar", "m", "X", " ", "S", "ar", "n", " ", "p", "h", "aar", "m", " ", "B", "a", "l", "o", " ", "c", "os", " ", "g", "i", "as", " ", "3", "dd", "nl">>,
    \* ""
    <<>>,
    \* " \n"
    <<" ", "nl">>,
    \* "Danh sách\n"
    <<"D", "a", "n", "h", " ", "s", "as", "c", "h", "nl">>,
    \* "x Sản phẩm Balo có giá 3đ\n"
    <<"x", " ", "S", "ar", "n", " ", "p", "h", "aar", "m", " ", "B", "a", "l", "o", " ", "c", "os", " ", "g", "i", "as", " ", "3", "dd", "nl">>,
    \* "Sản phẩm Balo giá 3đ\n"
    <<"S", "ar", "n", " ", "p", "h", "aar", "m", " ", "B", "a", "l", "o", " ", "g", "i", "as", " ", "3", "dd", "nl">>,
    \* "Sản phẩm Balo có giá đ\n"
    <<"S", "ar", "n", " ", "p", "h", "aar", "m", " ", "B", "a", "l", "o", " ", "c", "os", " ", "g", "i", "as", " ", "dd", "nl">>,
    \* "Sản phẩm Balo có giá 3\n"
    <<"S", "ar", "n", " ", "p", "h", "aar", "m", " ", "B", "a", "l", "o", " ", "c", "os", " ", "g", "i", "as", " ", "3", "nl">>,
    \* "Sản phẩm có giá 3đ\n"
    <<"S", "ar", "n", " ", "p", "h", "aar", "m", " ", "c", "os", " ", "g", "i", "as", " ", "3", "dd", "nl">>,
    \* "Sản phẩm\n"
    <<"S", "ar", "n", " ", "p", "h", "aar", "m", "nl">>,
    \* "Sản phẩm Balo có giá .đ\n"
    <<"S", "ar", "n", " ", "p", "h", "aar", "m", " ", "B", "a", "l", "o", " ", "c", "os", " ", "g", "i", "as", " ", ".", "dd", "nl">>,
    \* "Sản phẩm Balo có giá 1đ (Giảm 5% từ ,đ)\n"
    <<"S", "ar", "n", " ", "p", "h", "aar", "m", " ", "B", "a", "l", "o", " ", "c", "os", " ", "g", "i", "as", " ", "1", "dd", " ", "(", "G", "i", "ar", "m", " ", "5", "%", " ", "t", "uwf", " ", ",", "dd", ")", "nl">>,
    \* "Sản phẩm Áo thun quần lót có giá 2đ\n"
    <<"S", "ar", "n", " ", "p", "h", "aar", "m", " ", "AS", "o", " ", "t", "h", "u", "n", " ", "q", "u", "aaf", "n", " ", "l", "os", "t", " ", "c", "os", " ", "g", "i", "as", " ", "2", "dd", "nl">>}


(***************************************************************************)
(* Character classes and str helpers.                                      *)
(***************************************************************************)
\* \s of the regex and the characters str.strip() removes
Whitespace == {" ", "tab", "nl"}

\* \d of the regex
Digits == {"0", "1", "2", "3", "4", "5", "6", "7", "8", "9"}

\* [\d.,] of the regex
PriceChars == Digits \cup {".", ","}

DigitVal(c) ==
    CASE c = "0" -> 0 [] c = "1" -> 1 [] c = "2" -> 2 [] c = "3" -> 3
      [] c = "4" -> 4 [] c = "5" -> 5 [] c = "6" -> 6 [] c = "7" -> 7
      [] c = "8" -> 8 [] c = "9" -> 9

DigitChar(d) ==
    CASE d = 0 -> "0" [] d = 1 -> "1" [] d = 2 -> "2" [] d = 3 -> "3"
      [] d = 4 -> "4" [] d = 5 -> "5" [] d = 6 -> "6" [] d = 7 -> "7"
      [] d = 8 -> "8" [] d = 9 -> "9"

Min(S) == CHOOSE x \in S : \A y \in S : x <= y

\* index just after the longest run of characters of class C that starts at i
RECURSIVE RunEnd(_, _, _)
RunEnd(s, i, C) ==
    IF i <= Len(s) /\ s[i] \in C THEN RunEnd(s, i + 1, C) ELSE i

\* index just before the longest run of characters of class C that ends at i
RECURSIVE RunStart(_, _, _)
RunStart(s, i, C) ==
    IF i >= 1 /\ s[i] \in C THEN RunStart(s, i - 1, C) ELSE i

\* str.strip()
Strip(s) ==
    LET a == RunEnd(s, 1, Whitespace)
        b == RunStart(s, Len(s), Whitespace)
    IN  IF a > b THEN <<>> ELSE SubSeq(s, a, b)

\* the literal p occurs in s at index i
LitAt(s, i, p) ==
    /\ i >= 1
    /\ i + Len(p) - 1 <= Len(s)
    /\ SubSeq(s, i, i + Len(p) - 1) = p

\* mutation of StartsWith: the marker phrase anywhere in the line
StartsWith_Anywhere(s, p) == \E i \in 1..(Len(s) - Len(p) + 1) : LitAt(s, i, p)

\* str.startswith
StartsWith(s, p) == LitAt(s, 1, p)

\* w in s
Contains(s, w) == \E i \in 1..(Len(s) - Len(w) + 1) : LitAt(s, i, w)

\* str.lower()
Lower(s) ==
    [i \in 1..Len(s) |->
        IF s[i] \in DOMAIN UpperToLower THEN UpperToLower[s[i]] ELSE s[i]]

\* any(word in title_lower for word in words)
AnyIn(title_lower, words) == \E w \in words : Contains(title_lower, w)

\* s.replace(".", "").replace(",", "")
RemoveSeparators(s) == SelectSeq(s, LAMBDA c : c \notin {".", ","})

\* value of a string of decimal digits
RECURSIVE DecValue(_)
DecValue(ds) ==
    IF ds = <<>> THEN 0
    ELSE DecValue(SubSeq(ds, 1, Len(ds) - 1)) * 10 + DigitVal(ds[Len(ds)])

\* decimal digits of a natural number
RECURSIVE DecString(_)
DecString(n) ==
    IF n < 10 THEN <<DigitChar(n)>>
    ELSE Append(DecString(n \div 10), DigitChar(n % 10))

\* float(text) raises ValueError on the empty string; the regex lets only
\* digits through, so every other text converts
FloatRaises(text) == RemoveSeparators(text) = <<>>

\* mutation of ToFloat: the separators are left in and float() reads the
\* first dot as a decimal point
ToFloat_DecimalPoint(text) ==
    LET digits == SelectSeq(text, LAMBDA c : c # ",")
    IN  DecValue(SubSeq(digits, 1, RunEnd(digits, 1, Digits) - 1))

\* float(text.replace(".", "").replace(",", ""))
ToFloat(text) == DecValue(RemoveSeparators(text))

\* int(text)
ToInt(text) == DecValue(text)

(***************************************************************************)
(* The regex of line 37, matched the way re.search matches it.             *)
(***************************************************************************)
\* " có giá ([\d.,]+)đ" at index j: the greedy run of price characters must
\* be non-empty and be followed by the currency sign
PriceClauseAt(s, j) ==
    LET p == j + Len(CoGia)
        e == RunEnd(s, p, PriceChars)
    IN  [ok    |-> LitAt(s, j, CoGia) /\ e > p /\ LitAt(s, e, Dong),
         first |-> p,
         last  |-> e - 1,
         after |-> e + Len(Dong)]

\* "\s*\(Giảm\s*(\d+)%\s*từ\s*([\d.,]+)đ\)" at index k
DiscountClauseAt(s, k) ==
    LET a == RunEnd(s, k, Whitespace)
        b == RunEnd(s, a + Len(OpenGiam), Whitespace)
        c == RunEnd(s, b, Digits)
        d == RunEnd(s, c + Len(Percent), Whitespace)
        e == RunEnd(s, d + Len(Tu), Whitespace)
        f == RunEnd(s, e, PriceChars)
        ok == /\ LitAt(s, a, OpenGiam)
              /\ c > b
              /\ LitAt(s, c, Percent)
              /\ LitAt(s, d, Tu)
              /\ f > e
              /\ LitAt(s, f, DongClose)
    IN  [ok |-> ok,
         g3 |-> IF ok THEN SubSeq(s, b, c - 1) ELSE <<>>,
         g4 |-> IF ok THEN SubSeq(s, e, f - 1) ELSE <<>>]

\* the pattern anchored at index st: "Sản phẩm " then the lazy title (.+?),
\* which ends at the first place a price clause follows
MatchAt(s, st) ==
    LET t0 == st + Len(MarkerSp)
        J  == IF LitAt(s, st, MarkerSp)
              THEN {j \in (t0 + 1)..Len(s) : PriceClauseAt(s, j).ok}
              ELSE {}
    IN  IF J = {}
        THEN [matched |-> FALSE, g1 |-> <<>>, g2 |-> <<>>,
              has_discount |-> FALSE, g3 |-> <<>>, g4 |-> <<>>]
        ELSE LET j  == Min(J)
                 pr == PriceClauseAt(s, j)
                 dc == DiscountClauseAt(s, pr.after)
             IN  [matched |-> TRUE,
                  g1 |-> SubSeq(s, t0, j - 1),
                  g2 |-> SubSeq(s, pr.first, pr.last),
                  has_discount |-> dc.ok, g3 |-> dc.g3, g4 |-> dc.g4]

\* re.search(pattern, line): the leftmost index at which the pattern matches
re_search(s) ==
    LET S == {st \in 1..Len(s) : MatchAt(s, st).matched}
    IN  IF S = {} THEN MatchAt(s, 0) ELSE MatchAt(s, Min(S))

(***************************************************************************)
(* Building one product record (lines 41-81).                              *)
(***************************************************************************)
\* mutation of Category: the "Quần" group is tested before the "Áo thun" group
Category_QuanFirst(title) ==
    LET title_lower == Lower(title)
    IN  IF AnyIn(title_lower, KwQuan) THEN Quan
        ELSE IF AnyIn(title_lower, KwAoThun) THEN AoThun
        ELSE IF AnyIn(title_lower, KwAoPolo) THEN AoPolo
        ELSE IF AnyIn(title_lower, KwAoSoMi) THEN AoSoMi
        ELSE IF AnyIn(title_lower, KwAoKhoac) THEN AoKhoac
        ELSE IF AnyIn(title_lower, KwDoLot) THEN DoLot
        ELSE IF AnyIn(title_lower, KwVay) THEN Vay
        ELSE IF AnyIn(title_lower, KwAoBra) THEN AoBra
        ELSE IF AnyIn(title_lower, KwLegging) THEN Legging
        ELSE IF AnyIn(title_lower, KwTat) THEN Tat
        ELSE Khac

\* mutation of Category: the "Đồ lót" group is tested before the "Quần" group
Category_DoLotBeforeQuan(title) ==
    IF AnyIn(Lower(title), KwAoThun) THEN AoThun
    ELSE IF AnyIn(Lower(title), KwDoLot) THEN DoLot
    ELSE Category_QuanFirst(title)

\* mutation of Category: the keywords are looked up in the title as written,
\* not in title.lower()
Category_CaseSensitive(title) ==
    IF AnyIn(title, KwAoThun) THEN AoThun
    ELSE IF AnyIn(title, KwQuan) THEN Quan
    ELSE IF AnyIn(title, KwAoPolo) THEN AoPolo
    ELSE IF AnyIn(title, KwAoSoMi) THEN AoSoMi
    ELSE IF AnyIn(title, KwAoKhoac) THEN AoKhoac
    ELSE IF AnyIn(title, KwDoLot) THEN DoLot
    ELSE IF AnyIn(title, KwVay) THEN Vay
    ELSE IF AnyIn(title, KwAoBra) THEN AoBra
    ELSE IF AnyIn(title, KwLegging) THEN Legging
    ELSE IF AnyIn(title, KwTat) THEN Tat
    ELSE Khac

\* the if/elif chain of lines 47-69
Category(title) ==
    LET title_lower == Lower(title)
    IN  IF AnyIn(title_lower, KwAoThun) THEN AoThun
        ELSE IF AnyIn(title_lower, KwQuan) THEN Quan
        ELSE IF AnyIn(title_lower, KwAoPolo) THEN AoPolo
        ELSE IF AnyIn(title_lower, KwAoSoMi) THEN AoSoMi
        ELSE IF AnyIn(title_lower, KwAoKhoac) THEN AoKhoac
        ELSE IF AnyIn(title_lower, KwDoLot) THEN DoLot
        ELSE IF AnyIn(title_lower, KwVay) THEN Vay
        ELSE IF AnyIn(title_lower, KwAoBra) THEN AoBra
        ELSE IF AnyIn(title_lower, KwLegging) THEN Legging
        ELSE IF AnyIn(title_lower, KwTat) THEN Tat
        ELSE Khac

\* minimum field width of the id number, the 4 of {product_id:04d}
IdWidth == 4

\* f"{n:04d}": zero-padded to at least IdWidth digits
RECURSIVE ZeroPad(_, _)
ZeroPad(ds, width) ==
    IF Len(ds) >= width THEN ds ELSE ZeroPad(<<"0">> \o ds, width)

\* f"prod_{product_id:04d}"
FormatId(n) == IdPrefix \o ZeroPad(DecString(n), IdWidth)

\* f"{x:,.0f}" of an integer-valued float: digits in groups of three
RECURSIVE GroupThousands(_)
GroupThousands(ds) ==
    IF Len(ds) <= 3 THEN ds
    ELSE GroupThousands(SubSeq(ds, 1, Len(ds) - 3))
             \o <<",">> \o SubSeq(ds, Len(ds) - 2, Len(ds))

FormatPrice(x) == GroupThousands(DecString(x))

\* the dict of lines 72-81, from the match groups
MakeProduct(m, id_number) ==
    LET title         == Strip(m.g1)
        current_price == ToFloat(m.g2)
        category      == Category(title)
    IN  [id                |-> FormatId(id_number),
         title             |-> title,
         category          |-> category,
         price             |-> current_price,
         original_price    |-> IF m.has_discount THEN ToFloat(m.g4)
                               ELSE current_price,
         discount_percent  |-> IF m.has_discount THEN ToInt(m.g3) ELSE 0,
         short_description |-> title,
         description       |-> DescHead \o title \o DescCat \o category
                                   \o DescPrice \o FormatPrice(current_price)
                                   \o Dong]

\* what one pass of the loop body does with a raw line: "skip" (no record),
\* "raise" (float() raises ValueError) or "append"
LineOutcome(raw) ==
    LET stripped == Strip(raw)
        m        == re_search(stripped)
    IN  IF ~(stripped # <<>> /\ StartsWith(stripped, Marker)) THEN "skip"
        ELSE IF ~m.matched THEN "skip"
        ELSE IF FloatRaises(m.g2) THEN "raise"
        ELSE IF m.has_discount /\ FloatRaises(m.g4) THEN "raise"
        ELSE "append"

(***************************************************************************)
(* The catalog file: json.dump (convert_products.py 92-93) and json.load   *)
(* (assignment_10.py 67-68).  A document is the list of its objects, an    *)
(* object the list of its members in dict order, and a member's value is   *)
(* the JSON text of the value.                                             *)
(***************************************************************************)
\* mutation of EscapeChar: the double quote is written as it is
EscapeChar_QuoteAsIs(c) ==
    CASE c = "bs"  -> <<"bs", "bs">>
      [] c = "nl"  -> <<"bs", "n">>
      [] c = "tab" -> <<"bs", "t">>
      [] OTHER     -> <<c>>

\* the escape json writes for a character of a str (ensure_ascii=False)
EscapeChar(c) ==
    CASE c = "dq"  -> <<"bs", "dq">>
      [] c = "bs"  -> <<"bs", "bs">>
      [] c = "nl"  -> <<"bs", "n">>
      [] c = "tab" -> <<"bs", "t">>
      [] OTHER     -> <<c>>

RECURSIVE EscapeAll(_)
EscapeAll(s) ==
    IF s = <<>> THEN <<>> ELSE EscapeChar(Head(s)) \o EscapeAll(Tail(s))

\* JSON text of a str
JsonString(s) == <<"dq">> \o EscapeAll(s) \o <<"dq">>

\* JSON text of a float with an integer value: float.__repr__
JsonFloat(x) == DecString(x) \o <<".", "0">>

\* JSON text of an int
JsonInt(n) == DecString(n)

\* mutation of JsonObject: the dict has no "short_description"
JsonObject_NoShortDescription(p) ==
    << [key |-> "id",                value |-> JsonString(p.id)],
       [key |-> "title",             value |-> JsonString(p.title)],
       [key |-> "category",          value |-> JsonString(p.category)],
       [key |-> "price",             value |-> JsonFloat(p.price)],
       [key |-> "original_price",    value |-> JsonFloat(p.original_price)],
       [key |-> "discount_percent",  value |-> JsonInt(p.discount_percent)],
       [key |-> "description",       value |-> JsonString(p.description)] >>

\* the members json.dump writes for one product dict, in dict order
JsonObject(p) ==
    << [key |-> "id",                value |-> JsonString(p.id)],
       [key |-> "title",             value |-> JsonString(p.title)],
       [key |-> "category",          value |-> JsonString(p.category)],
       [key |-> "price",             value |-> JsonFloat(p.price)],
       [key |-> "original_price",    value |-> JsonFloat(p.original_price)],
       [key |-> "discount_percent",  value |-> JsonInt(p.discount_percent)],
       [key |-> "short_description", value |-> JsonString(p.short_description)],
       [key |-> "description",       value |-> JsonString(p.description)] >>

\* json.dump(products, f, ensure_ascii=False, indent=2)
json_dump(ps) == [i \in 1..Len(ps) |-> JsonObject(ps[i])]

\* the character an escape sequence \x stands for
UnescapeChar(x) ==
    CASE x = "n" -> "nl"
      [] x = "t" -> "tab"
      [] OTHER   -> x

\* the str between the quotes of a JSON string
RECURSIVE UnescapeAll(_)
UnescapeAll(t) ==
    IF t = <<>> THEN <<>>
    ELSE IF Head(t) = "bs"
         THEN <<UnescapeChar(t[2])>> \o UnescapeAll(SubSeq(t, 3, Len(t)))
         ELSE <<Head(t)>> \o UnescapeAll(Tail(t))

\* index of the quote that closes the JSON string opened at index 1: the
\* first quote from index i on that no backslash escapes (0 if there is none)
RECURSIVE ClosingQuote(_, _)
ClosingQuote(t, i) ==
    IF i > Len(t) THEN 0
    ELSE IF t[i] = "bs" THEN ClosingQuote(t, i + 2)
    ELSE IF t[i] = "dq" THEN i
    ELSE ClosingQuote(t, i + 1)

\* the text is one JSON number: digits, then possibly a fraction part
IsNumberText(t) ==
    LET e == RunEnd(t, 1, Digits)
    IN  /\ e > 1
        /\ \/ e = Len(t) + 1
           \/ /\ t[e] = "."
              /\ e < Len(t)
              /\ RunEnd(t, e + 1, Digits) = Len(t) + 1

\* the text is one JSON value json.load accepts
IsValueText(t) ==
    /\ t # <<>>
    /\ IF Head(t) = "dq" THEN ClosingQuote(t, 2) = Len(t) ELSE IsNumberText(t)

\* the number a JSON number text stands for: an int, or a float when the
\* text has a fraction part (float.__repr__ of an integer-valued float
\* writes ".0")
ParseNumber(t) == DecValue(SubSeq(t, 1, RunEnd(t, 1, Digits) - 1))

\* the Python value of a JSON value text
ParseValue(t) ==
    IF Head(t) = "dq" THEN UnescapeAll(SubSeq(t, 2, Len(t) - 1))
    ELSE ParseNumber(t)

\* the dict json.load builds from one object: a repeated key keeps its last
\* value
ParseObject(members) ==
    [k \in {members[i].key : i \in DOMAIN members} |->
        LET last == CHOOSE i \in DOMAIN members :
                        /\ members[i].key = k
                        /\ \A j \in DOMAIN members : members[j].key = k => j <= i
        IN  ParseValue(members[last].value)]

\* json.load raises JSONDecodeError unless every value is well formed
Decodable(doc) ==
    \A i \in DOMAIN doc : \A j \in DOMAIN doc[i] : IsValueText(doc[i][j].value)

\* json.load(f)
json_load(doc) == [i \in 1..Len(doc) |-> ParseObject(doc[i])]

(***************************************************************************)
(* State.                                                                  *)
(***************************************************************************)
VARIABLES
    source,       \* "file": untitled_products.txt was read; "sample": it is
                  \* absent and the built-in product_lines are used
    pc,           \* "loop", "returned", "raised" (ValueError left the
                  \* function), "saved" (the catalog file is written)
    nread,        \* lines the loop has taken so far
    line,         \* the raw line the loop took last
    products,     \* the list being built
    product_id,   \* the id counter
    catalog_file, \* vietnamese_products.json: whether it exists, its document
    cache,        \* st.cache_data entry of load_products in the app process
    loaded,       \* what the last load_products call returned
    load_result,  \* how it returned: "none" (never called), "read",
                  \* "cached", "FileNotFoundError", "JSONDecodeError"
    catalog,      \* _products: the records handed to the sync
    store,        \* the vectors the Pinecone index holds
    sync_pc,      \* generate_and_upsert_embeddings: "idle", "loop",
                  \* "done", "skipped", "cached" (memoised return),
                  \* "raised" (the exception reached the caller)
    sync_i,       \* records the for loop has taken in this call
    vectors_to_upsert, \* the batch being collected
    sync_memo,    \* st.cache_data entry of generate_and_upsert_embeddings
    calls,        \* calls of generate_and_upsert_embeddings so far
    store_at_call,\* the store when the current call was made
    embed_calls,  \* get_embedding calls of the current call
    upsert_log,   \* index.upsert calls of the current call
    reports,      \* st.info / st.error / st.success of the current call
    failures,     \* service calls that have failed so far
    top_k,        \* the "Number of results" slider at the last search
    selected_category, \* the category filter at the last search
    price_range,  \* the price slider at the last search: <<low, high>>
    matches,      \* what search_similar_products returned last
    filtered_matches, \* the matches the page showed last
    query_calls,  \* index.query calls of the last search
    env,          \* os.environ after load_dotenv: each required variable is
                  \* "unset", "empty" or "set"
    app_pc,       \* the run of assignment_10.py: "start", "checked",
                  \* "main" (clients made, catalog loaded), "ready" (the
                  \* page is up), "stopped" (st.stop())
    clients,      \* the service clients created in this run
    index_exists, \* whether Pinecone has the index "coolmate-index"
    created,      \* create_index calls of this run
    messages,     \* st.session_state.messages of the chat app
    agent,        \* st.session_state.agent: "None" or "agent"
    agent_cache   \* st.cache_resource entry of initialize_agent: "unset",
                  \* "agent" or "None"

parserVars == <<source, pc, nread, line, products, product_id>>
appVars == <<cache, loaded, load_result>>
syncVars == <<catalog, store, sync_pc, sync_i, vectors_to_upsert, sync_memo,
              calls, store_at_call, embed_calls, upsert_log, reports,
              failures>>
searchVars == <<top_k, selected_category, price_range, matches,
                filtered_matches, query_calls>>
startupVars == <<env, app_pc, clients, index_exists, created>>
chatVars == <<messages, agent, agent_cache>>
vars == <<source, pc, nread, line, products, product_id, catalog_file,
          cache, loaded, load_result, syncVars, searchVars, startupVars, chatVars>>

\* the variables assignment_10.py requires (lines 14-18)
required_env_vars ==
    {"PINECONE_API_KEY", "AZURE_OPENAI_ENDPOINT", "OPENAI_EMBEDDING_TEST_KEY"}

\* assignment_10.py has started with every setting present and its page is up
AppReady ==
    /\ env = [var \in required_env_vars |-> "set"]
    /\ app_pc = "ready"
    /\ clients = {"openai", "pinecone"}
    /\ index_exists = TRUE
    /\ created = 0

\* a new session of the chat app (app.py, lines 26-29)
ChatIdle ==
    /\ messages = <<>>
    /\ agent = "None"
    /\ agent_cache = "unset"

\* no search has been made
SearchIdle ==
    /\ top_k = 0
    /\ selected_category = <<>>
    /\ price_range = <<0, 0>>
    /\ matches = <<>>
    /\ filtered_matches = <<>>
    /\ query_calls = 0

\* the sync has not been called
SyncIdle ==
    /\ catalog = <<>>
    /\ store = {}
    /\ sync_pc = "idle"
    /\ sync_i = 0
    /\ vectors_to_upsert = <<>>
    /\ sync_memo = FALSE
    /\ calls = 0
    /\ store_at_call = {}
    /\ embed_calls = 0
    /\ upsert_log = <<>>
    /\ reports = <<>>
    /\ failures = 0

Init ==
    /\ source \in {"file", "sample"}
    /\ pc = "loop"
    /\ nread = 0
    /\ line = <<>>
    /\ products = <<>>
    /\ product_id = 1
    /\ catalog_file = [exists |-> FALSE, doc |-> <<>>]
    /\ cache = [set |-> FALSE, value |-> <<>>]
    /\ loaded = <<>>
    /\ load_result = "none"
    /\ SyncIdle
    /\ SearchIdle
    /\ AppReady
    /\ ChatIdle

\* number of lines the loop will see
InputLength == IF source = "sample" THEN Len(SampleLines) ELSE MaxLines

\* the lines the next pass can get
NextLines ==
    IF source = "file" THEN FileLines
    ELSE IF nread < Len(SampleLines) THEN {SampleLines[nread + 1]} ELSE {}

\* mutation of ProcessLine: product_id += 1 runs for every line of the loop
ProcessLine_CountsEveryLine(raw) ==
    /\ pc = "loop"
    /\ nread < InputLength
    /\ nread' = nread + 1
    /\ line' = raw
    /\ product_id' = product_id + 1
    /\ LET outcome == LineOutcome(raw)
       IN  /\ pc' = IF outcome = "raise" THEN "raised" ELSE "loop"
           /\ IF outcome = "append"
              THEN products' = Append(products,
                                   MakeProduct(re_search(Strip(raw)), product_id))
              ELSE UNCHANGED products
    /\ UNCHANGED <<source, catalog_file, appVars, syncVars, searchVars, startupVars, chatVars>>

\* one pass of the for loop of lines 32-84
ProcessLine(raw) ==
    /\ pc = "loop"
    /\ nread < InputLength
    /\ nread' = nread + 1
    /\ line' = raw
    /\ LET outcome == LineOutcome(raw)
       IN  /\ pc' = IF outcome = "raise" THEN "raised" ELSE "loop"
           /\ IF outcome = "append"
              THEN /\ products' = Append(products,
                                     MakeProduct(re_search(Strip(raw)), product_id))
                   /\ product_id' = product_id + 1
              ELSE UNCHANGED <<products, product_id>>
    /\ UNCHANGED <<source, catalog_file, appVars, syncVars, searchVars, startupVars, chatVars>>

\* the loop is out of lines: return products (line 86).  A file can hold any
\* number of lines up to MaxLines.
Return ==
    /\ pc = "loop"
    /\ IF source = "sample" THEN nread = Len(SampleLines) ELSE nread <= MaxLines
    /\ pc' = "returned"
    /\ UNCHANGED <<source, nread, line, products, product_id, catalog_file,
                   appVars, syncVars, searchVars, startupVars, chatVars>>

\* __main__ of convert_products.py after the parse returned: write the file
SaveCatalog ==
    /\ pc = "returned"
    /\ pc' = "saved"
    /\ catalog_file' = [exists |-> TRUE, doc |-> json_dump(products)]
    /\ UNCHANGED <<source, nread, line, products, product_id, appVars,
                   syncVars, searchVars, startupVars, chatVars>>

\* load_products() in the app: a memoised call returns the cached value,
\* any other call reads the file
LoadProducts ==
    /\ IF cache.set
       THEN /\ loaded' = cache.value
            /\ load_result' = "cached"
            /\ UNCHANGED cache
       ELSE /\ load_result' =
                   IF ~catalog_file.exists THEN "FileNotFoundError"
                   ELSE IF ~Decodable(catalog_file.doc) THEN "JSONDecodeError"
                   ELSE "read"
            /\ loaded' = IF load_result' = "read"
                         THEN json_load(catalog_file.doc) ELSE <<>>
            /\ cache' = [set |-> TRUE, value |-> loaded']
    /\ UNCHANGED <<parserVars, catalog_file, syncVars, searchVars, startupVars, chatVars>>

\* the app process is started again: its caches start empty
AppStart ==
    /\ cache.set \/ sync_memo
    /\ sync_pc # "loop"
    /\ cache' = [set |-> FALSE, value |-> <<>>]
    /\ sync_memo' = FALSE
    /\ UNCHANGED <<parserVars, catalog_file, loaded, load_result, catalog,
                   store, sync_pc, sync_i, vectors_to_upsert, calls,
                   store_at_call, embed_calls, upsert_log, reports, failures,
                   searchVars, startupVars, chatVars>>

\* the parser alone: parse_products_from_text()
Next ==
    \/ \E raw \in NextLines : ProcessLine(raw)
    \/ Return

\* the converter script and the app that reads its catalog file
NextCatalog ==
    \/ \E raw \in NextLines : ProcessLine(raw)
    \/ Return
    \/ SaveCatalog
    \/ LoadProducts
    \/ AppStart

SpecCatalog == Init /\ [][NextCatalog]_vars

Spec == Init /\ [][Next]_vars

(***************************************************************************)
(* The sync of the catalog into the vector store:                          *)
(* generate_and_upsert_embeddings() of assignment_10.py.                   *)
(***************************************************************************)
\* vectors per upsert request (line 167)
BatchSize == 50

\* dimensions asked of text-embedding-3-small (line 84)
EmbeddingDims == 512

\* records of the largest catalog beyond one full batch
MaxExtra == 1

\* service calls (embedding, upsert, index statistics) that can fail in a run
MaxFailures == 1

\* calls of generate_and_upsert_embeddings in a run
MaxCalls == 2

\* a record of the loaded catalog; every third one has no discount_percent
CatalogProduct(k) ==
    LET base == [id          |-> FormatId(k),
                 title       |-> <<"S", "P">> \o DecString(k),
                 category    |-> IF k % 2 = 0 THEN Quan ELSE AoThun,
                 price       |-> 100000 + 10000 * (k % 5),
                 description |-> <<"M", "T">> \o DecString(k)]
    IN  IF k % 3 = 0 THEN base
        ELSE base @@ [discount_percent |-> 10 * (k % 4)]

\* a loaded catalog of n records
CatalogOf(n) == [k \in 1..n |-> CatalogProduct(k)]

\* the catalogs the sync is run on
CatalogSizes == {1, BatchSize, BatchSize + MaxExtra}

\* mutation of rich_description: the title alone is embedded
rich_description_TitleOnly(product) == product.title

\* f"{product['title']} {product['category']} {product['description']}"
rich_description(product) ==
    product.title \o <<" ">> \o product.category \o <<" ">>
        \o product.description

\* what get_embedding returns when the service answers: the embedding of the
\* text in EmbeddingDims dimensions, a function of the text
get_embedding(text) == [input |-> text, dimensions |-> EmbeddingDims]

\* product.get("discount_percent", 0)
GetDiscountPercent(product) ==
    IF "discount_percent" \in DOMAIN product THEN product.discount_percent
    ELSE 0

\* the vector dict of lines 148-158
Vector(product) ==
    [id       |-> product.id,
     values   |-> get_embedding(rich_description(product)),
     metadata |-> [title            |-> product.title,
                   category         |-> product.category,
                   price            |-> product.price,
                   description      |-> product.description,
                   discount_percent |-> GetDiscountPercent(product)]]

\* the ids of a list of vectors
Ids(vectors) == {vectors[j].id : j \in DOMAIN vectors}

\* index.upsert(vectors=...): a vector replaces the stored one of the same id
Upsert(s, vectors) ==
    {v \in s : v.id \notin Ids(vectors)} \cup {vectors[j] : j \in DOMAIN vectors}

\* the ids of a list of vectors, in the order of the list
IdList(vectors) == [j \in DOMAIN vectors |-> vectors[j].id]

\* the record kept of an index.upsert call: how many vectors it carried,
\* their ids, how the call ended and the line that made it
UpsertCall(vectors, outcome, at) ==
    [size |-> Len(vectors), ids |-> IdList(vectors), outcome |-> outcome,
     line |-> at]

\* mutation of NeedsFlush: only a full batch is flushed after the loop
NeedsFlush_FullOnly(vectors) == Len(vectors) >= BatchSize

\* if vectors_to_upsert (line 176)
NeedsFlush(vectors) == vectors # <<>>

\* a vector whose id no record of the catalog has
ForeignVector == Vector(CatalogProduct(BatchSize + MaxExtra + 1))

\* what the index can hold before the first call: nothing, the vector of the
\* first record only, or a vector of another catalog
InitialStores(c) == {{}, {Vector(c[1])}, {ForeignVector}}

\* how a call of the embedding service or of describe_index_stats can end
ServiceOutcomes == IF failures < MaxFailures THEN {"ok", "error"} ELSE {"ok"}

\* how index.upsert can end: applied; refused (raises, nothing stored);
\* applied but the reply is lost (raises)
UpsertOutcomes ==
    IF failures < MaxFailures THEN {"ok", "rejected", "timeout"} ELSE {"ok"}

\* a message on the page
Report(kind, id, n) == [kind |-> kind, id |-> id, n |-> n]

\* mutation of SkipsSync: the index is never taken as populated
SkipsSync_Never(count) == FALSE

\* if stats['total_vector_count'] > 0 (line 132)
SkipsSync(count) == count > 0

\* the sync starts from the state of Init with a catalog loaded
InitSync ==
    /\ source = "sample"
    /\ pc = "loop"
    /\ nread = 0
    /\ line = <<>>
    /\ products = <<>>
    /\ product_id = 1
    /\ catalog_file = [exists |-> FALSE, doc |-> <<>>]
    /\ cache = [set |-> FALSE, value |-> <<>>]
    /\ loaded = <<>>
    /\ load_result = "none"
    /\ catalog \in {CatalogOf(n) : n \in CatalogSizes}
    /\ store \in InitialStores(catalog)
    /\ sync_pc = "idle"
    /\ sync_i = 0
    /\ vectors_to_upsert = <<>>
    /\ sync_memo = FALSE
    /\ calls = 0
    /\ store_at_call = {}
    /\ embed_calls = 0
    /\ upsert_log = <<>>
    /\ reports = <<>>
    /\ failures = 0
    /\ SearchIdle
    /\ AppReady
    /\ ChatIdle

\* a call of generate_and_upsert_embeddings (main, line 257): a memoised
\* call returns at once and the page shows the cached messages again; any
\* other call runs lines 126-134
SyncCall ==
    /\ sync_pc # "loop"
    /\ calls < MaxCalls
    /\ calls' = calls + 1
    /\ store_at_call' = store
    /\ embed_calls' = 0
    /\ upsert_log' = <<>>
    /\ IF sync_memo
       THEN /\ sync_pc' = "cached"
            /\ UNCHANGED <<sync_i, vectors_to_upsert, sync_memo, reports,
                           failures>>
       ELSE \E stats \in ServiceOutcomes :
            /\ vectors_to_upsert' = <<>>
            /\ sync_i' = 0
            /\ IF stats = "error"
               THEN /\ reports' = <<Report("generation_error", <<>>, 0)>>
                    /\ sync_pc' = "raised"
                    /\ failures' = failures + 1
                    /\ UNCHANGED sync_memo
               ELSE /\ UNCHANGED failures
                    /\ IF SkipsSync(Cardinality(store))
                       THEN /\ reports' = <<Report("already_contains", <<>>,
                                                   Cardinality(store))>>
                            /\ sync_pc' = "skipped"
                            /\ sync_memo' = TRUE
                       ELSE /\ reports' = <<>>
                            /\ sync_pc' = "loop"
                            /\ UNCHANGED sync_memo
    /\ UNCHANGED <<parserVars, catalog_file, appVars, catalog, store,
                   searchVars, startupVars, chatVars>>

\* one pass of the for loop of lines 139-173
SyncRecord ==
    /\ sync_pc = "loop"
    /\ sync_i < Len(catalog)
    /\ sync_i' = sync_i + 1
    /\ embed_calls' = embed_calls + 1
    /\ LET product == catalog[sync_i + 1]
           failed == Report("product_error", product.id, 0)
       IN  \E embedding \in ServiceOutcomes :
           IF embedding = "error"
           THEN /\ failures' = failures + 1
                /\ reports' = reports
                       \o <<Report("embedding_error", <<>>, 0), failed>>
                /\ UNCHANGED <<vectors_to_upsert, store, upsert_log>>
           ELSE LET batch == Append(vectors_to_upsert, Vector(product))
                IN  IF Len(batch) >= BatchSize
                    THEN \E u \in UpsertOutcomes :
                         /\ upsert_log' = Append(upsert_log,
                                                 UpsertCall(batch, u, 168))
                         /\ store' = IF u = "rejected" THEN store
                                     ELSE Upsert(store, batch)
                         /\ IF u = "ok"
                            THEN /\ vectors_to_upsert' = <<>>
                                 /\ UNCHANGED <<failures, reports>>
                            ELSE /\ vectors_to_upsert' = batch
                                 /\ failures' = failures + 1
                                 /\ reports' = Append(reports, failed)
                    ELSE /\ vectors_to_upsert' = batch
                         /\ UNCHANGED <<store, upsert_log, failures, reports>>
    /\ UNCHANGED <<parserVars, catalog_file, appVars, catalog, sync_pc,
                   sync_memo, calls, store_at_call, searchVars, startupVars, chatVars>>

\* after the loop: lines 175-185, and 187-189 when a call of them raises
SyncFinish ==
    /\ sync_pc = "loop"
    /\ sync_i = Len(catalog)
    /\ \E u \in UpsertOutcomes, final_stats \in ServiceOutcomes :
       LET flush == NeedsFlush(vectors_to_upsert)
           uploaded == Report("uploaded", <<>>, Len(catalog))
           error == Report("generation_error", <<>>, 0)
       IN  /\ ~flush => u = "ok"
           /\ u # "ok" => final_stats = "ok"
           /\ upsert_log' =
                  IF flush
                  THEN Append(upsert_log,
                              UpsertCall(vectors_to_upsert, u, 177))
                  ELSE upsert_log
           /\ store' = IF flush /\ u # "rejected"
                       THEN Upsert(store, vectors_to_upsert) ELSE store
           /\ IF u # "ok"
              THEN /\ reports' = Append(reports, error)
                   /\ failures' = failures + 1
                   /\ sync_pc' = "raised"
                   /\ UNCHANGED sync_memo
              ELSE IF final_stats = "error"
              THEN /\ reports' = reports \o <<uploaded, error>>
                   /\ failures' = failures + 1
                   /\ sync_pc' = "raised"
                   /\ UNCHANGED sync_memo
              ELSE /\ reports' = reports
                       \o <<uploaded,
                            Report("final_stats", <<>>, Cardinality(store'))>>
                   /\ sync_pc' = "done"
                   /\ sync_memo' = TRUE
                   /\ UNCHANGED failures
    /\ UNCHANGED <<parserVars, catalog_file, appVars, catalog, sync_i,
                   vectors_to_upsert, calls, store_at_call, embed_calls,
                   searchVars, startupVars, chatVars>>

\* the app with a catalog loaded and the "Generate Embeddings" button
NextSync ==
    \/ SyncCall
    \/ SyncRecord
    \/ SyncFinish
    \/ AppStart

SpecSync == InitSync /\ [][NextSync]_vars

(***************************************************************************)
(* The search page: search_similar_products() and main, lines 261-337.     *)
(***************************************************************************)
\* "All Categories"
AllCategories ==
    <<"A", "l", "l", " ", "C", "a", "t", "e", "g", "o", "r", "i", "e", "s">>

\* top_k=top_k * 2 (line 291)
OverFetch == 2

\* value=5 of the "Number of results" slider (line 263)
DefaultTopK == 5

\* step=10000 of the price slider (line 279)
PriceStep == 10000

\* records of the largest catalog searched
MaxStore == 11

\* records of a catalog that are cheap shirts, whatever their rank
MaxPassing == 3

\* record k of a searched catalog: a cheap shirt when k is in P, else a
\* dear shirt (odd k) or cheap trousers (even k)
SearchProduct(k, P) ==
    [CatalogProduct(k) EXCEPT
        !.category = IF k \in P \/ k % 2 = 1 THEN AoThun ELSE Quan,
        !.price = IF k \in P \/ k % 2 = 0 THEN 150000 ELSE 300000]

\* where the cheap shirts can be; one dear shirt at least, so that the price
\* slider of lines 274-280 has min_value < max_value
Layouts(n) ==
    {P \in SUBSET (1..n) :
        /\ Cardinality(P) <= MaxPassing
        /\ \E k \in 1..n : k % 2 = 1 /\ k \notin P}

\* the sizes of the catalogs searched
StoreSizes == {3, MaxStore}

\* the catalogs searched
SearchCatalogs ==
    UNION {{[k \in 1..n |-> SearchProduct(k, P)] : P \in Layouts(n)} :
              n \in StoreSizes}

\* the number in a record id
IdNumber(id) == DecValue(SubSeq(id, Len(IdPrefix) + 1, Len(id)))

\* the score of a stored vector for the query, in hundredths: the query is
\* nearest to the records of lowest number, two by two at the same distance
Similarity(v) == 95 - 10 * (IdNumber(v.id) \div 2)

\* v is returned before w
Before(v, w) ==
    \/ Similarity(v) > Similarity(w)
    \/ Similarity(v) = Similarity(w) /\ IdNumber(v.id) < IdNumber(w.id)

\* a match of the query result, with include_metadata=True
MatchOf(v) == [id |-> v.id, score |-> Similarity(v), metadata |-> v.metadata]

\* the vector of s returned first
Nearest(s) == CHOOSE v \in s : \A w \in s : ~Before(w, v)

\* the k vectors of s of highest score, by descending score
RECURSIVE Ranked(_, _)
Ranked(s, k) ==
    IF s = {} \/ k = 0 THEN <<>>
    ELSE <<Nearest(s)>> \o Ranked(s \ {Nearest(s)}, k - 1)

\* the matches of a list of vectors
RECURSIVE Matches(_)
Matches(vs) ==
    IF vs = <<>> THEN <<>> ELSE <<MatchOf(Head(vs))>> \o Matches(Tail(vs))

\* mutation of IndexQuery: every stored vector is returned
IndexQuery_All(s, k) == Matches(Ranked(s, Cardinality(s)))

\* index.query(vector=query_embedding, top_k=k, include_metadata=True).matches
IndexQuery(s, k) == Matches(Ranked(s, k))

\* mutation of search_similar_products: a failure is not noticed and the
\* nearest vectors are returned
search_similar_products_IgnoresFailure(embedding, query, k) ==
    IndexQuery(store, k)

\* what search_similar_products returns (lines 193-207): the matches, or []
\* when get_embedding or index.query raised
search_similar_products(embedding, query, k) ==
    IF embedding = "ok" /\ query = "ok" THEN IndexQuery(store, k) ELSE <<>>

\* mutation of PassesFilters: the price is not looked at
PassesFilters_CategoryOnly(metadata, category, range) ==
    category = AllCategories \/ metadata.category = category

\* the condition of lines 298-299
PassesFilters(metadata, category, range) ==
    /\ category = AllCategories \/ metadata.category = category
    /\ range[1] <= metadata.price
    /\ metadata.price <= range[2]

\* the for loop of lines 296-302 on the matches left, acc being
\* filtered_matches
RECURSIVE FilterLoop(_, _, _, _, _)
FilterLoop(ms, category, range, k, acc) ==
    IF ms = <<>> THEN acc
    ELSE IF PassesFilters(Head(ms).metadata, category, range)
    THEN IF Len(acc) + 1 >= k THEN Append(acc, Head(ms))
         ELSE FilterLoop(Tail(ms), category, range, k, Append(acc, Head(ms)))
    ELSE FilterLoop(Tail(ms), category, range, k, acc)

\* mutation of FilterMatches: the kept matches come out last first
FilterMatches_Reversed(ms, category, range, k) ==
    LET kept == FilterLoop(ms, category, range, k, <<>>)
    IN  [j \in 1..Len(kept) |-> kept[Len(kept) + 1 - j]]

\* filtered_matches after lines 295-302
FilterMatches(ms, category, range, k) ==
    FilterLoop(ms, category, range, k, <<>>)

\* mutation of FetchCount: the store is asked for top_k matches
FetchCount_Same(k) == k

\* top_k=top_k * 2, the number of matches asked of the store (line 291)
FetchCount(k) == k * OverFetch

\* the values the "Number of results" slider is set to
TopKs == {1, 2, DefaultTopK}

\* the choices of the category selectbox (lines 266-267)
CategoryChoices == {AllCategories} \cup {catalog[k].category : k \in DOMAIN catalog}

\* max(all_prices) (line 272)
Max(S) == CHOOSE x \in S : \A y \in S : x >= y

\* the ranges the price slider is set to (lines 270-280): its ends are
\* int(min_price) and int(max_price), its values steps of PriceStep apart
PriceRanges ==
    LET prices == {catalog[k].price : k \in DOMAIN catalog}
        low == Min(prices)
        high == Max(prices)
        middle == low + 5 * PriceStep
    IN  {r \in {<<low, low>>, <<low, middle>>, <<low, high>>, <<high, high>>} :
            r[2] <= high}

\* st.error, st.warning, st.info or st.success of a message
ReportLevel(kind) ==
    IF kind \in {"embedding_error", "product_error", "generation_error",
                 "search_error", "no_similar"} THEN "error"
    ELSE IF kind = "no_filtered" THEN "warning"
    ELSE IF kind = "uploaded" THEN "success"
    ELSE "info"

\* the page with a catalog loaded, the index empty or holding the vector of
\* every record, and no query typed
InitSearch ==
    /\ source = "sample"
    /\ pc = "loop"
    /\ nread = 0
    /\ line = <<>>
    /\ products = <<>>
    /\ product_id = 1
    /\ catalog_file = [exists |-> FALSE, doc |-> <<>>]
    /\ cache = [set |-> FALSE, value |-> <<>>]
    /\ loaded = <<>>
    /\ load_result = "none"
    /\ catalog \in SearchCatalogs
    /\ store \in {{}, {Vector(catalog[k]) : k \in DOMAIN catalog}}
    /\ sync_pc = "idle"
    /\ sync_i = 0
    /\ vectors_to_upsert = <<>>
    /\ sync_memo = FALSE
    /\ calls = 0
    /\ store_at_call = {}
    /\ embed_calls = 0
    /\ upsert_log = <<>>
    /\ reports = <<>>
    /\ failures = 0
    /\ SearchIdle
    /\ AppReady
    /\ ChatIdle

\* a query is typed and the page script runs once: lines 289-337.  The
\* embedding request and the index query each answer or raise.
Search ==
    /\ top_k = 0
    /\ \E k \in TopKs, category \in CategoryChoices, range \in PriceRanges,
       embedding \in {"ok", "error"}, query \in {"ok", "error"} :
        /\ embedding = "error" => query = "ok"
        /\ top_k' = k
        /\ selected_category' = category
        /\ price_range' = range
        /\ embed_calls' = 1
        /\ query_calls' = IF embedding = "ok" THEN 1 ELSE 0
        /\ matches' = search_similar_products(embedding, query, FetchCount(k))
        /\ filtered_matches' =
               IF matches' # <<>>
               THEN FilterMatches(matches', category, range, k) ELSE <<>>
        /\ reports' =
               (IF embedding = "error"
                THEN <<Report("embedding_error", <<>>, 0),
                       Report("search_error", <<>>, 0)>>
                ELSE IF query = "error"
                THEN <<Report("search_error", <<>>, 0)>>
                ELSE <<>>)
               \o (IF matches' = <<>>
                   THEN <<Report("no_similar", <<>>, 0)>>
                   ELSE IF filtered_matches' = <<>>
                   THEN <<Report("no_filtered", <<>>, 0)>>
                   ELSE <<Report("found", <<>>, Len(filtered_matches'))>>)
        /\ UNCHANGED <<parserVars, catalog_file, appVars, catalog, store,
                       sync_pc, sync_i, vectors_to_upsert, sync_memo, calls,
                       store_at_call, upsert_log, failures, startupVars,
                       chatVars>>

\* the search page
NextSearch == Search

SpecSearch == InitSearch /\ [][NextSearch]_vars

(***************************************************************************)
(* The start of assignment_10.py: the settings check of lines 13-30 and    *)
(* main up to the page (lines 209-232).                                    *)
(***************************************************************************)
\* what os.environ can hold for a variable
EnvValues == {"unset", "empty", "set"}

\* mutation of IsMissing: only a variable that is not set at all is missing
IsMissing_OnlyUnset(value) == value = "unset"

\* not os.environ.get(var) (line 22)
IsMissing(value) == value \in {"unset", "empty"}

\* missing_vars after the loop of lines 21-23
missing_vars == {var \in required_env_vars : IsMissing(env[var])}

\* the catalog the started app loads: a dear shirt, cheap trousers and a
\* cheap shirt
StartupCatalog == [k \in 1..3 |-> SearchProduct(k, {3})]

\* the script is run: any setting can be unset or empty, the catalog file
\* can be empty, the index may not exist yet
InitStartup ==
    /\ source = "sample"
    /\ pc = "loop"
    /\ nread = 0
    /\ line = <<>>
    /\ products = <<>>
    /\ product_id = 1
    /\ catalog_file = [exists |-> FALSE, doc |-> <<>>]
    /\ cache = [set |-> FALSE, value |-> <<>>]
    /\ loaded = <<>>
    /\ load_result = "none"
    /\ catalog \in {<<>>, StartupCatalog}
    /\ index_exists \in BOOLEAN
    /\ store \in {{}} \cup (IF index_exists /\ catalog # <<>>
                            THEN {{Vector(catalog[k]) : k \in DOMAIN catalog}}
                            ELSE {})
    /\ sync_pc = "idle"
    /\ sync_i = 0
    /\ vectors_to_upsert = <<>>
    /\ sync_memo = FALSE
    /\ calls = 0
    /\ store_at_call = {}
    /\ embed_calls = 0
    /\ upsert_log = <<>>
    /\ reports = <<>>
    /\ failures = 0
    /\ SearchIdle
    /\ env \in [required_env_vars -> EnvValues]
    /\ app_pc = "start"
    /\ clients = {}
    /\ created = 0
    /\ ChatIdle

\* lines 20-30: st.stop() when a required variable is missing
CheckEnvironment ==
    /\ app_pc = "start"
    /\ app_pc' = IF missing_vars # {} THEN "stopped" ELSE "checked"
    /\ UNCHANGED <<parserVars, catalog_file, appVars, syncVars, searchVars,
                   env, clients, index_exists, created, chatVars>>

\* main, lines 211-225: get_openai_client (os.environ[...] raises KeyError
\* for an unset variable, AzureOpenAI can raise), load_products, and
\* st.stop() on a failure or an empty catalog
StartMain ==
    /\ app_pc = "checked"
    /\ \E openai \in {"ok", "error"} :
        /\ (env["AZURE_OPENAI_ENDPOINT"] = "unset"
              \/ env["OPENAI_EMBEDDING_TEST_KEY"] = "unset") => openai = "error"
        /\ clients' = IF openai = "ok" THEN clients \cup {"openai"}
                      ELSE clients
        /\ app_pc' = IF openai = "ok" /\ catalog # <<>> THEN "main"
                     ELSE "stopped"
    /\ UNCHANGED <<parserVars, catalog_file, appVars, syncVars, searchVars,
                   env, index_exists, created, chatVars>>

\* main, lines 227-232, and setup_pinecone_index (96-120): create the
\* Pinecone client, list the indexes, create the index when it is not there;
\* st.stop() when a step raises
SetupIndex ==
    /\ app_pc = "main"
    /\ \E outcome \in {"ok", "client_error", "list_error", "create_error"} :
        /\ env["PINECONE_API_KEY"] = "unset" => outcome = "client_error"
        /\ outcome = "create_error" => ~index_exists
        /\ clients' = IF outcome = "client_error" THEN clients
                      ELSE clients \cup {"pinecone"}
        /\ created' = IF ~index_exists /\ outcome \in {"ok", "create_error"}
                      THEN created + 1 ELSE created
        /\ index_exists' = (index_exists \/ outcome = "ok")
        /\ app_pc' = IF outcome = "ok" THEN "ready" ELSE "stopped"
    /\ UNCHANGED <<parserVars, catalog_file, appVars, syncVars, searchVars,
                   env, chatVars>>

\* the script from its first line: the checks, then the page with its
\* button and its query box
NextStartup ==
    \/ CheckEnvironment
    \/ StartMain
    \/ SetupIndex
    \/ app_pc = "ready" /\ SyncCall
    \/ app_pc = "ready" /\ SyncRecord
    \/ app_pc = "ready" /\ SyncFinish
    \/ app_pc = "ready" /\ Search

SpecStartup == InitStartup /\ [][NextStartup]_vars

(***************************************************************************)
(* The chat application (src/assignment_11/app.py).  Each action is one    *)
(* run of the script, started by one widget of the page.                   *)
(***************************************************************************)
\* most messages the modelled session appends before it stops taking input
MaxMessages == 4

\* the sample queries of the sidebar (lines 116-122)
sample_queries ==
    <<"Weather in Paris", "Latest AI news",
      "Weather in Tokyo + cherry blossoms",
      "Sustainable energy trends 2025", "Climate in Australia">>

\* texts the user types into st.chat_input; the empty text is never
\* submitted (line 147)
TypedPrompts == {"Weather in Hanoi"}

\* what agent.invoke does (lines 163-193): it returns messages, returns
\* none, or raises
InvokeOutcomes == {"response", "empty", "exception"}

\* a history entry (lines 126-130, 149-153, 173-177); the timestamp is
\* display data and is left out
Message(role, content) == [role |-> role, content |-> content]

\* the assistant entry appended for an outcome of agent.invoke
AssistantMessage(outcome) ==
    Message("assistant",
            CASE outcome = "response" -> "ai_response"
              [] outcome = "empty"    -> "Sorry, I couldn't generate a response."
              [] OTHER                -> "Error: e")

\* what initialize_agent() can return when it really runs (lines 34-69)
AgentResults == {"agent", "None"}

InitChat ==
    /\ source = "sample"
    /\ pc = "loop"
    /\ nread = 0
    /\ line = <<>>
    /\ products = <<>>
    /\ product_id = 1
    /\ catalog_file = [exists |-> FALSE, doc |-> <<>>]
    /\ cache = [set |-> FALSE, value |-> <<>>]
    /\ loaded = <<>>
    /\ load_result = "none"
    /\ SyncIdle
    /\ SearchIdle
    /\ AppReady
    /\ ChatIdle

\* the "Initialize Agent" button (lines 80-87); st.cache_resource keeps the
\* first return value of initialize_agent, a failed one included
InitializeAgent ==
    /\ IF agent_cache = "unset"
       THEN \E result \in AgentResults :
                /\ agent_cache' = result
                /\ agent' = result
       ELSE /\ agent' = agent_cache
            /\ UNCHANGED agent_cache
    /\ UNCHANGED <<messages, parserVars, catalog_file, appVars, syncVars,
                   searchVars, startupVars>>

\* the "Clear Chat History" button (lines 99-101)
ClearChatHistory ==
    /\ messages' = <<>>
    /\ UNCHANGED <<agent, agent_cache, parserVars, catalog_file, appVars,
                   syncVars, searchVars, startupVars>>

\* a sample-query button (lines 124-131): the query is appended as a user
\* message and the script reruns; the rerun has no prompt to answer
SampleQuery(query) ==
    /\ Len(messages) < MaxMessages
    /\ messages' = Append(messages, Message("user", query))
    /\ UNCHANGED <<agent, agent_cache, parserVars, catalog_file, appVars,
                   syncVars, searchVars, startupVars>>

\* a prompt typed into the chat input (lines 147-195)
ChatInput(prompt) ==
    /\ Len(messages) < MaxMessages
    /\ IF agent # "None"
       THEN \E outcome \in InvokeOutcomes :
                messages' = Append(Append(messages, Message("user", prompt)),
                                   AssistantMessage(outcome))
       ELSE messages' = Append(messages, Message("user", prompt))
    /\ UNCHANGED <<agent, agent_cache, parserVars, catalog_file, appVars,
                   syncVars, searchVars, startupVars>>

NextChat ==
    \/ InitializeAgent
    \/ ClearChatHistory
    \/ \E n \in DOMAIN sample_queries : SampleQuery(sample_queries[n])
    \/ \E prompt \in TypedPrompts : ChatInput(prompt)

SpecChat == InitChat /\ [][NextChat]_vars

(***************************************************************************)
(* Properties of the parser (spec.md sections 3, 4.1 and 8).               *)
(***************************************************************************)
\* the record the loop appended last
LastProduct == products[Len(products)]

\* "prod_" and k written with four digits, for k below 100
ExpectedId(k) ==
    IdPrefix \o <<"0", "0", DigitChar(k \div 10), DigitChar(k % 10)>>

\* C1: the k-th record of the list has id "prod_" followed by k zero-padded
\* to four digits, whatever lines were skipped before it, and the counter is
\* always one more than the number of records emitted.
C1_SequentialIds ==
    /\ \A k \in 1..Len(products) : products[k].id = ExpectedId(k)
    /\ product_id = Len(products) + 1

\* a file whose first line was skipped and whose second line was accepted:
\* the record has id prod_0001
C1_Witness ==
    /\ source = "file"
    /\ nread = 2
    /\ Len(products) = 1
    /\ LineOutcome(line) = "append"
    /\ products[1].id = ExpectedId(1)

\* C2: every record has discount_percent = 0 exactly when original_price
\* equals price.
C2_ZeroDiscountIffSamePrice ==
    \A k \in 1..Len(products) :
        (products[k].discount_percent = 0)
            <=> (products[k].original_price = products[k].price)

\* the line does not start with the marker phrase, or starts with it and
\* fails the regex
Skippable(raw) ==
    LET s == Strip(raw)
    IN  \/ ~LitAt(s, 1, Marker)
        \/ ~re_search(s).matched

\* C3: a pass of the loop over a line that does not start with the marker
\* phrase, or that starts with it and fails the regex, leaves the list and
\* the id counter as they were and stays in the loop.
C3_SkippedLineChangesNothing ==
    [][(pc = "loop" /\ nread' = nread + 1 /\ Skippable(line'))
          => (products' = products /\ product_id' = product_id /\ pc' = "loop")]_vars

\* one record was emitted, then a line that starts with the marker phrase and
\* fails the regex was skipped: the counter still says 2
C3_Witness ==
    /\ pc = "loop"
    /\ nread = 2
    /\ Len(products) = 1
    /\ product_id = 2
    /\ LitAt(Strip(line), 1, Marker)
    /\ ~re_search(Strip(line)).matched

\* C4: the parser never fails with an error: no pass of the loop lets a
\* ValueError out of the function.
C4_NeverRaises == pc # "raised"

\* the keyword table as an ordered list of (category, keywords)
CategoryTable ==
    << [category |-> AoThun,  keywords |-> KwAoThun],
       [category |-> Quan,    keywords |-> KwQuan],
       [category |-> AoPolo,  keywords |-> KwAoPolo],
       [category |-> AoSoMi,  keywords |-> KwAoSoMi],
       [category |-> AoKhoac, keywords |-> KwAoKhoac],
       [category |-> DoLot,   keywords |-> KwDoLot],
       [category |-> Vay,     keywords |-> KwVay],
       [category |-> AoBra,   keywords |-> KwAoBra],
       [category |-> Legging, keywords |-> KwLegging],
       [category |-> Tat,     keywords |-> KwTat] >>

\* the lower-cased title holds a keyword of group g
GroupHits(title, g) ==
    \E w \in CategoryTable[g].keywords : Contains(Lower(title), w)

\* index of the first group of the table that the title hits, 0 if none
FirstGroup(title) ==
    LET hits == {g \in DOMAIN CategoryTable : GroupHits(title, g)}
    IN  IF hits = {} THEN 0 ELSE Min(hits)

\* C5: a record whose title holds keywords of several groups has the
\* category of the group that comes first in the table; with a keyword of
\* the first group and one of the second it is the first group's category.
C5_FirstMatchWins ==
    \A k \in 1..Len(products) :
        LET g == FirstGroup(products[k].title)
        IN  /\ g # 0 => products[k].category = CategoryTable[g].category
            /\ (GroupHits(products[k].title, 1) /\ GroupHits(products[k].title, 2))
                   => products[k].category = AoThun

\* a record whose title holds "tshirt" and "shorts" and is filed under the
\* first group
C5_Witness ==
    \E k \in 1..Len(products) :
        /\ GroupHits(products[k].title, 1)
        /\ GroupHits(products[k].title, 2)
        /\ products[k].category = AoThun

\* the eleven categories
Categories ==
    {Khac, AoThun, Quan, AoPolo, AoSoMi, AoKhoac, DoLot, Vay, AoBra, Legging, Tat}

\* C6: two records whose titles are equal up to case have the same category,
\* whatever their prices, discounts and positions; the category is one of
\* the eleven, and it is the default one exactly when no keyword matches.
C6_CategoryFromTitleAlone ==
    /\ \A i, j \in 1..Len(products) :
           Lower(products[i].title) = Lower(products[j].title)
               => products[i].category = products[j].category
    /\ \A k \in 1..Len(products) :
           /\ products[k].category \in Categories
           /\ (products[k].category = Khac) <=> (FirstGroup(products[k].title) = 0)

\* two records with titles that differ only in case, different prices and
\* different ids, and the same category
C6_Witness ==
    \E i, j \in 1..Len(products) :
        /\ products[i].title # products[j].title
        /\ Lower(products[i].title) = Lower(products[j].title)
        /\ products[i].price # products[j].price
        /\ products[i].id # products[j].id
        /\ products[i].category = products[j].category

\* "Áo Thun Nam Viet Devils - Bật Như Man"
VietDevilsTitle ==
    <<"AS", "o", " ", "T", "h", "u", "n", " ", "N", "a", "m", " ", "V", "i", "e", "t", " ", "D", "e", "v", "i", "l", "s", " ", "-", " ", "B", "aaj", "t", " ", "N", "h", "uw", " ", "M", "a", "n">>

\* titles, number texts with their values and percent texts with their
\* values that the discount lines of the inputs are made of
C7_Titles ==
    {VietDevilsTitle,
     <<"T", "s", "h", "i", "r", "t", " ", "S", "h", "o", "r", "t", "s">>,
     <<"Q", "U", "AAF", "N", " ", "L", "OS", "T", " ", "T", "r", "u", "n", "k">>,
     <<"B", "a", "l", "o">>,
     <<"Q", "u", "aaf", "n", " ", "D", "af", "i", " ", "N", "a", "m", " ", "K", "a", "k", "i", " ", "E", "x", "c", "o", "o", "l">>}

C7_Numbers ==
    {[text |-> <<"3", "2", "9", ".", "0", "0", "0">>, value |-> 329000],
     [text |-> <<"3", "8", "9", ".", "0", "0", "0">>, value |-> 389000],
     [text |-> <<"2", "8", "9", ".", "0", "0", "0">>, value |-> 289000],
     [text |-> <<"4", "1", "9", ".", "0", "0", "0">>, value |-> 419000],
     [text |-> <<"4", "9", "9", ".", "0", "0", "0">>, value |-> 499000],
     [text |-> <<"5">>, value |-> 5],
     [text |-> <<"6">>, value |-> 6],
     [text |-> <<"1", "0", "0">>, value |-> 100],
     [text |-> <<"2", "0", "0">>, value |-> 200]}

C7_Percents ==
    {[text |-> <<"1", "5">>, value |-> 15],
     [text |-> <<"1", "2">>, value |-> 12],
     [text |-> <<"1", "6">>, value |-> 16],
     [text |-> <<"1", "0">>, value |-> 10],
     [text |-> <<"0">>, value |-> 0],
     [text |-> <<"1", "5", "0">>, value |-> 150]}

\* the last record has these fields
LastProductIs(title, price, original_price, discount_percent) ==
    /\ Len(products) = product_id - 1
    /\ Len(products) > 0
    /\ LastProduct.title = title
    /\ LastProduct.price = price
    /\ LastProduct.original_price = original_price
    /\ LastProduct.discount_percent = discount_percent

\* C7: after a pass over the line "Sản phẩm <T> có giá <P>đ (Giảm <D>% từ
\* <O>đ)" the record appended last has title T, price the number P without
\* its separators, original_price the number O and discount_percent D; for
\* the Viet Devils line these are 329000, 389000 and 15, with category
\* "Áo thun".
C7_DiscountLineFields ==
    nread > 0 =>
        LET s == Strip(line)
        IN  /\ \A T \in C7_Titles :
                 LET a == MarkerSp \o T \o CoGia
                 IN  StartsWith(s, a) =>
                     \A P \in C7_Numbers :
                       LET b == a \o P.text \o Dong \o <<" ">> \o OpenGiam \o <<" ">>
                       IN  StartsWith(s, b) =>
                           \A D \in C7_Percents :
                             LET c == b \o D.text \o Percent \o <<" ">> \o Tu \o <<" ">>
                             IN  StartsWith(s, c) =>
                                 \A O \in C7_Numbers :
                                   s = c \o O.text \o DongClose
                                     => LastProductIs(T, P.value, O.value, D.value)
            /\ s = SampleLines[8] =>
                 /\ LastProductIs(VietDevilsTitle, 329000, 389000, 15)
                 /\ LastProduct.category = AoThun

\* the built-in lines were parsed up to the Viet Devils line, whose record
\* says 329000, 389000, 15 and "Áo thun"
C7_Witness ==
    /\ source = "sample"
    /\ nread = 8
    /\ line = SampleLines[8]
    /\ LastProductIs(VietDevilsTitle, 329000, 389000, 15)
    /\ LastProduct.category = AoThun

\* C8: every record has original_price at least price, and price at least 0.
C8_OriginalAtLeastPrice ==
    \A k \in 1..Len(products) :
        /\ products[k].original_price >= products[k].price
        /\ products[k].price >= 0

\* C9: every record has a discount_percent from 0 to 100.
C9_PercentInRange ==
    \A k \in 1..Len(products) :
        /\ products[k].discount_percent >= 0
        /\ products[k].discount_percent <= 100

(***************************************************************************)
(* Properties of the catalog file (spec.md sections 6 and 8).              *)
(***************************************************************************)
\* field names of a product dict
ProductFields ==
    {"id", "title", "category", "price", "original_price", "discount_percent",
     "short_description", "description"}

\* C10: a load_products call that reads the catalog file the converter wrote
\* returns a list of the same length and order as the parser's list, and
\* each of its records has the same fields with equal values.
C10_RoundTrip ==
    [][(catalog_file.exists /\ ~cache.set /\ cache'.set)
          => /\ load_result' = "read"
             /\ Len(loaded') = Len(products)
             /\ \A i \in 1..Len(products) :
                    /\ DOMAIN loaded'[i] = ProductFields
                    /\ \A f \in ProductFields : loaded'[i][f] = products[i][f]]_vars

\* load_products has read back two records, one with a quote and a backslash
\* in its title, one with a discount
C10_Witness ==
    /\ load_result = "read"
    /\ Len(loaded) = 2
    /\ Len(products) = 2
    /\ \E i \in 1..2 : Contains(loaded[i].title, <<"dq", "A", "bs">>)
    /\ \E i \in 1..2 : loaded[i].discount_percent > 0

\* field names of ProductRecord in the data model (spec.md section 3)
DataModelFields ==
    {"id", "title", "category", "price", "original_price", "discount_percent",
     "description"}

\* the keys of object i of the catalog file
ObjectKeys(i) ==
    {catalog_file.doc[i][j].key : j \in DOMAIN catalog_file.doc[i]}

\* C11 as first stated: every record of the catalog file has exactly the
\* seven field names of the data model.
C11_DataModelFieldsOnly ==
    \A i \in DOMAIN catalog_file.doc : ObjectKeys(i) = DataModelFields

\* C11: every record of the catalog file has exactly eight members, the seven
\* field names of the data model and "short_description", each once.
C11_FieldsWithShortDescription ==
    \A i \in DOMAIN catalog_file.doc :
        /\ ObjectKeys(i) = DataModelFields \cup {"short_description"}
        /\ ObjectKeys(i) = ProductFields
        /\ Len(catalog_file.doc[i]) = Cardinality(ObjectKeys(i))

\* the file is written and holds two records
C11_Witness ==
    /\ pc = "saved"
    /\ catalog_file.exists
    /\ Len(catalog_file.doc) = 2

\* C12 as first stated: with the source file absent, or with a file in which
\* no line matches (stated for files of at most one line), the parser
\* returns an empty list and does not fail.
C12_EmptyWhenAbsentOrUnparseable ==
    /\ source = "sample" => pc # "raised"
    /\ (/\ pc = "returned"
        /\ \/ source = "sample"
           \/ source = "file" /\ nread = 0
           \/ source = "file" /\ nread = 1 /\ Skippable(line))
           => products = <<>>

\* C12: with the source file absent the parser does not fail and returns the
\* records of the ten built-in lines; with a file, as long as no line read
\* matches, the list stays empty and the parser does not fail, and it
\* returns the list as it is.
C12_SampleFallbackOrEmpty ==
    [][/\ source = "sample" => pc' # "raised"
       /\ (source = "sample" /\ pc' = "returned") => Len(products') = 10
       /\ (source = "file" /\ products = <<>> /\ nread' = nread + 1
               /\ Skippable(line'))
              => (products' = <<>> /\ pc' = "loop")
       /\ (source = "file" /\ pc' = "returned") => products' = products]_vars

\* the source file is absent and the parser has returned ten records
C12_Witness ==
    /\ source = "sample"
    /\ pc = "returned"
    /\ Len(products) = 10
    /\ products[10].id = ExpectedId(10)

\* the lower-cased title holds "quần lót"
HasQuanLot(title) ==
    Contains(Lower(title), <<"q", "u", "aaf", "n", " ", "l", "os", "t">>)

\* the lower-cased title holds "trunk" or "briefs"
HasTrunkOrBriefs(title) ==
    \/ Contains(Lower(title), <<"t", "r", "u", "n", "k">>)
    \/ Contains(Lower(title), <<"b", "r", "i", "e", "f", "s">>)

\* a record has category "Đồ lót" only if its title holds "trunk" or
\* "briefs" and no keyword of a group tested before "Đồ lót"
UnderwearOnlyByTrunkOrBriefs ==
    \A k \in 1..Len(products) :
        products[k].category = DoLot
            => /\ HasTrunkOrBriefs(products[k].title)
               /\ \A g \in 1..5 : ~GroupHits(products[k].title, g)

\* C27 as first stated: every record whose title holds "quần lót" has
\* category "Quần"; "Đồ lót" goes only to titles with "trunk" or "briefs"
\* and no keyword of an earlier group.
C27_QuanLotIsAlwaysQuan ==
    /\ \A k \in 1..Len(products) :
           HasQuanLot(products[k].title) => products[k].category = Quan
    /\ UnderwearOnlyByTrunkOrBriefs

\* C27: a record whose title holds "quần lót" never has category "Đồ lót":
\* it has "Áo thun" when the title also holds a keyword of the "Áo thun"
\* group, which is tested first, and "Quần" otherwise; "Đồ lót" goes only
\* to titles with "trunk" or "briefs" and no keyword of an earlier group.
C27_QuanLotIsNeverDoLot ==
    /\ \A k \in 1..Len(products) :
           HasQuanLot(products[k].title)
               => /\ products[k].category # DoLot
                  /\ products[k].category =
                         IF GroupHits(products[k].title, 1) THEN AoThun
                         ELSE Quan
    /\ UnderwearOnlyByTrunkOrBriefs

\* a "quần lót" title with "trunk" is in "Quần" and a "trunk" title without
\* it is in "Đồ lót"
C27_Witness ==
    \E i, j \in 1..Len(products) :
        /\ HasQuanLot(products[i].title)
        /\ HasTrunkOrBriefs(products[i].title)
        /\ products[i].category = Quan
        /\ ~HasQuanLot(products[j].title)
        /\ products[j].category = DoLot

\* the text holds at least one digit
HasDigit(text) == \E n \in 1..Len(text) : text[n] \in Digits

\* the stripped line starts with the marker phrase and the regex finds a
\* price clause in it whose number holds a digit
MarkedWithValidPrice(raw) ==
    LET s == Strip(raw)
    IN  /\ LitAt(s, 1, Marker)
        /\ re_search(s).matched
        /\ HasDigit(re_search(s).g2)

\* the price clause is followed by a discount clause "(Giảm <int>% từ
\* <number>đ)" whose number holds a digit
WellFormedDiscount(raw) ==
    LET m == re_search(Strip(raw))
    IN  m.matched /\ m.has_discount /\ HasDigit(m.g4)

\* C28: after a pass of the loop over a line that starts with the marker
\* phrase and has a valid price clause but no well-formed discount clause,
\* the parser is still running, the line's record is the last of the list
\* with discount_percent 0 and original_price equal to price, and the id
\* counter is one past the record's number.
C28_BadDiscountClauseStillAccepted ==
    (/\ pc \in {"loop", "raised"}
     /\ nread >= 1
     /\ MarkedWithValidPrice(line)
     /\ ~WellFormedDiscount(line))
        => /\ pc = "loop"
           /\ Len(products) >= 1
           /\ LastProduct.title = Strip(re_search(Strip(line)).g1)
           /\ LastProduct.discount_percent = 0
           /\ LastProduct.original_price = LastProduct.price
           /\ LastProduct.id = FormatId(product_id - 1)
           /\ product_id = Len(products) + 1

(***************************************************************************)
(* Properties of the sync (spec.md sections 4.2, 7 and 8).                 *)
(***************************************************************************)
\* vectors in the store when the current call was made
count_at_call == Cardinality(store_at_call)

\* the current call got through its loop
LoopEnded == sync_pc \in {"done", "raised"} /\ sync_i = Len(catalog)

\* C13: the first call, made on an empty store, attempts an embedding for
\* every record and, when no service call fails, upserts and leaves every
\* record in the store; in any later call made when the store holds a
\* vector, get_embedding is never called.
C13_SecondCallEmbedsNothing ==
    /\ (calls = 1 /\ count_at_call = 0 /\ LoopEnded)
           => /\ embed_calls = Len(catalog)
              /\ failures = 0
                    => /\ upsert_log # <<>>
                       /\ Ids(catalog) = {v.id : v \in store}
    /\ (calls >= 2 /\ count_at_call > 0) => embed_calls = 0

\* the second call found the store filled by the first and ran the count
\* check itself, the first having ended in an exception
C13_Witness ==
    /\ calls = 2
    /\ sync_pc = "skipped"
    /\ Len(catalog) > BatchSize
    /\ count_at_call = Len(catalog)
    /\ embed_calls = 0

\* C14 as stated: a call made when the store holds a vector calls neither
\* get_embedding nor upsert and leaves the store as it was, whatever ids it
\* holds; a call made on an empty store that returns has attempted an
\* embedding for every record.
C14_CountDecides ==
    /\ (calls >= 1 /\ count_at_call > 0)
           => (embed_calls = 0 /\ upsert_log = <<>> /\ store = store_at_call)
    /\ (calls >= 1 /\ count_at_call = 0
           /\ sync_pc \in {"done", "skipped", "cached"})
           => embed_calls = Len(catalog)

\* C15 as stated: the call ends in an exception only when it was not an
\* upsert that failed, every failed upsert is reported, and a call that got
\* into its loop handles every record.
C15_FailuresNeverAbort ==
    /\ sync_pc = "raised"
           => (upsert_log = <<>>
                 \/ upsert_log[Len(upsert_log)].outcome = "ok")
    /\ (\E j \in DOMAIN upsert_log : upsert_log[j].outcome # "ok")
           => \E j \in DOMAIN reports :
                 reports[j].kind \in {"product_error", "generation_error"}
    /\ sync_pc \in {"done", "raised"} => sync_i \in {0, Len(catalog)}

\* the ids carried by upsert call j of the current sync call
SentIds(j) == {upsert_log[j].ids[k] : k \in DOMAIN upsert_log[j].ids}

\* C22 as stated: every upsert call made inside the loop carries exactly 50
\* records and the call after the loop carries from 1 to 50; no call
\* carries more than 50 records or none, whatever calls fail.
C22_BatchesOfFifty ==
    \A j \in DOMAIN upsert_log :
        /\ upsert_log[j].size >= 1
        /\ upsert_log[j].size <= 50
        /\ upsert_log[j].line = 168 => upsert_log[j].size = 50

\* C23 as stated: within one call of the sync there is at most one
\* embedding call per record, and no record is carried by two upsert calls,
\* whatever calls fail.
C23_NoRetry ==
    /\ embed_calls <= Len(catalog)
    /\ sync_pc = "loop" => embed_calls = sync_i
    /\ \A i, j \in DOMAIN upsert_log :
           i < j => SentIds(i) \cap SentIds(j) = {}

\* the vector v has the id of the record, the embedding of the record's
\* "<title> <category> <description>" and metadata of exactly five keys
\* copied from the record (discount_percent 0 for a record without one)
BuiltFrom(v, record) ==
    /\ v.id = record.id
    /\ v.values.input =
           record.title \o <<" ">> \o record.category \o <<" ">>
               \o record.description
    /\ DOMAIN v.metadata =
           {"title", "category", "price", "description", "discount_percent"}
    /\ v.metadata.title = record.title
    /\ v.metadata.category = record.category
    /\ v.metadata.price = record.price
    /\ v.metadata.description = record.description
    /\ v.metadata.discount_percent =
           IF "discount_percent" \in DOMAIN record
           THEN record.discount_percent ELSE 0

\* the place in the catalog of the record with this id
RecordIndex(id) == CHOOSE k \in DOMAIN catalog : catalog[k].id = id

\* C25: every vector in the batch being collected, and every vector the
\* sync has put in the store, is built from one record the loop has taken:
\* that record's id, the embedding of its "<title> <category>
\* <description>", its title, category, price, description and
\* discount_percent as metadata.  The batch, and every upsert call, lists
\* its vectors in catalog order: each one comes later in the catalog than
\* the one before it.
C25_VectorsBuiltFromTheirRecord ==
    /\ \A j \in DOMAIN vectors_to_upsert :
           \E k \in 1..sync_i : BuiltFrom(vectors_to_upsert[j], catalog[k])
    /\ \A j \in 2..Len(vectors_to_upsert) :
           RecordIndex(vectors_to_upsert[j - 1].id)
               < RecordIndex(vectors_to_upsert[j].id)
    /\ calls >= 1
           => \A v \in store \ store_at_call :
                  \E k \in 1..sync_i : BuiltFrom(v, catalog[k])
    /\ \A c \in DOMAIN upsert_log :
           \A j \in 2..Len(upsert_log[c].ids) :
               RecordIndex(upsert_log[c].ids[j - 1])
                   < RecordIndex(upsert_log[c].ids[j])

\* a catalog of more than one batch is in the store after two upsert
\* calls, the third record, which has no discount_percent, with 0
C25_Witness ==
    /\ sync_pc = "done"
    /\ Len(catalog) > BatchSize
    /\ Len(upsert_log) = 2
    /\ Cardinality(store) = Len(catalog)
    /\ "discount_percent" \notin DOMAIN catalog[3]
    /\ \E v \in store : v.id = catalog[3].id /\ v.metadata.discount_percent = 0

\* the ids of the records whose embedding call failed in the current call:
\* get_embedding reports, then the loop reports the record
EmbedFailedIds ==
    {reports[j + 1].id :
        j \in {n \in 1..(Len(reports) - 1) : reports[n].kind = "embedding_error"}}

\* the ids carried by the upsert calls of the current call that succeeded
FlushedIds ==
    UNION {SentIds(c) : c \in {n \in DOMAIN upsert_log :
                                    upsert_log[n].outcome = "ok"}}

RECURSIVE UploadedCount(_)
UploadedCount(n) ==
    IF n = 0 THEN 0
    ELSE UploadedCount(n - 1)
            + (IF upsert_log[n].outcome = "ok" THEN upsert_log[n].size ELSE 0)

\* C29 as stated: the number in the "Successfully uploaded" message of a
\* call is the number of vectors its successful upsert calls carried.
C29_ReportedCountIsUploadedCount ==
    \A j \in DOMAIN reports :
        (reports[j].kind = "uploaded" /\ sync_pc # "cached")
            => reports[j].n = UploadedCount(Len(upsert_log))

(***************************************************************************)
(* Properties of the search (spec.md sections 4.2, 7 and 8).               *)
(***************************************************************************)
\* the metadata m has the selected category, or every category is selected,
\* and its price is within the selected range, ends included
MeetsFilters(m) ==
    /\ selected_category = AllCategories \/ m.category = selected_category
    /\ price_range[1] <= m.price
    /\ m.price <= price_range[2]

\* the last search reported a failure of the embedding or of the query
SearchFailed == \E j \in DOMAIN reports : reports[j].kind = "search_error"

\* C16: the page shows at most top_k results, each of the selected category
\* (any category under "All Categories") and priced within the selected
\* range, ends included.
C16_AtMostKWithinFilters ==
    /\ Len(filtered_matches) <= top_k
    /\ \A j \in DOMAIN filtered_matches :
           MeetsFilters(filtered_matches[j].metadata)

\* two shirts of the lower price range are shown, the nearest match being
\* left out and more matches than two having been fetched
C16_Witness ==
    /\ top_k = 2
    /\ Len(filtered_matches) = 2
    /\ selected_category = AoThun
    /\ price_range[2] < 300000
    /\ Len(matches) = 4
    /\ filtered_matches[1].id # matches[1].id

\* the fetched matches that meet the filters, in the order fetched
PassingMatches == SelectSeq(matches, LAMBDA m : MeetsFilters(m.metadata))

\* C17: the results shown are the first top_k (or all, if fewer) of the
\* fetched matches that meet the filters, in the order the store returned
\* them.
C17_FirstKInStoreOrder ==
    filtered_matches =
        SubSeq(PassingMatches, 1, Min({top_k, Len(PassingMatches)}))

\* a match that fails the filters lies between two that are shown, and a
\* match that meets them is cut off by top_k
C17_Witness ==
    /\ top_k = 2
    /\ Len(PassingMatches) = 3
    /\ Len(filtered_matches) = 2
    /\ \E a, b, c \in DOMAIN matches :
           /\ a < b /\ b < c
           /\ matches[a] = filtered_matches[1]
           /\ ~MeetsFilters(matches[b].metadata)
           /\ matches[c] = filtered_matches[2]

\* the stored vectors that meet the filters
PassingInStore == {v \in store : MeetsFilters(v.metadata)}

\* the ids of a list of matches
MatchIds(ms) == {ms[j].id : j \in DOMAIN ms}

\* the results shown are by descending score
Descending(ms) ==
    \A i, j \in DOMAIN ms : i < j => ms[i].score >= ms[j].score

\* a search with the default top_k answered by both services, the store
\* holding exactly three vectors that meet the filters
ThreeInStore ==
    /\ top_k = DefaultTopK
    /\ query_calls = 1
    /\ ~SearchFailed
    /\ Cardinality(PassingInStore) = 3

\* C18 as first stated: with top_k = 5 and exactly three stored items that
\* meet the filters, the three are shown, by descending score, whatever the
\* size of the store.
C18_ThreeMatchingAllShown ==
    ThreeInStore
        => /\ Len(filtered_matches) = 3
           /\ MatchIds(filtered_matches) = {v.id : v \in PassingInStore}
           /\ Descending(filtered_matches)

\* C18: with top_k = 5 and exactly three stored items that meet the
\* filters, the query fetches the ten vectors of highest score (all, in a
\* smaller store) and the page shows, by descending score and each once,
\* those of the three that are among them: all three exactly when none of
\* them ranks below the tenth.
C18_ThreeMatchingAmongFetched ==
    ThreeInStore
        => /\ Len(matches) = Min({OverFetch * DefaultTopK, Cardinality(store)})
           /\ \A v \in store :
                  v.id \notin MatchIds(matches)
                      => \A j \in DOMAIN matches :
                             matches[j].score >= Similarity(v)
           /\ MatchIds(filtered_matches) =
                  {v.id : v \in PassingInStore} \cap MatchIds(matches)
           /\ Len(filtered_matches) = Cardinality(MatchIds(filtered_matches))
           /\ Descending(filtered_matches)

\* the store is larger than what is fetched, and the three are all shown
C18_Witness ==
    /\ ThreeInStore
    /\ Cardinality(store) > OverFetch * DefaultTopK
    /\ Len(filtered_matches) = 3
    /\ filtered_matches[3].score < filtered_matches[1].score

\* C19 as stated: a search that fails nowhere and shows no result reports
\* nothing as an error.
C19_EmptyResultIsNotAnError ==
    (top_k > 0 /\ query_calls = 1 /\ ~SearchFailed /\ filtered_matches = <<>>)
        => \A j \in DOMAIN reports : ReportLevel(reports[j].kind) # "error"

\* C20: a search in which the embedding or the query fails calls each
\* service at most once, reports the failure, returns no match to the page,
\* which goes on to its "no similar products" message, and leaves the store
\* as it was; a query that returns nothing from a store that holds vectors
\* has failed and is reported.
C20_SearchFailureIsContained ==
    [][(top_k = 0 /\ top_k' > 0)
          => /\ embed_calls' = 1
             /\ query_calls' <= 1
             /\ store' = store
             /\ (query_calls' = 0 \/ (store # {} /\ matches' = <<>>))
                    => SearchFailed'
             /\ SearchFailed'
                    => /\ matches' = <<>>
                       /\ filtered_matches' = <<>>
                       /\ reports'[Len(reports')].kind = "no_similar"]_vars

\* the query failed on a store that holds vectors
C20_Witness ==
    /\ top_k > 0
    /\ store # {}
    /\ embed_calls = 1
    /\ query_calls = 1
    /\ SearchFailed
    /\ matches = <<>>

\* C24: a search whose query is answered gets from the store the 2 * top_k
\* vectors of highest score, all of them when the store holds fewer; the
\* page shows at most top_k of the matches fetched.
C24_FetchesTwiceK ==
    (top_k > 0 /\ query_calls = 1 /\ ~SearchFailed)
        => /\ Len(matches) = Min({2 * top_k, Cardinality(store)})
           /\ Cardinality(MatchIds(matches)) = Len(matches)
           /\ \A j \in DOMAIN matches :
                  \E v \in store : v.id = matches[j].id
           /\ \A v \in store :
                  v.id \notin MatchIds(matches)
                      => \A j \in DOMAIN matches :
                             matches[j].score >= Similarity(v)
           /\ Len(filtered_matches) <= top_k
           /\ MatchIds(filtered_matches) \subseteq MatchIds(matches)

\* two results were asked for, four of eleven vectors were fetched and two
\* of them are shown
C24_Witness ==
    /\ top_k = 2
    /\ query_calls = 1
    /\ ~SearchFailed
    /\ Cardinality(store) = MaxStore
    /\ Len(matches) = 4
    /\ Len(filtered_matches) = 2

(***************************************************************************)
(* Properties of the start of the application (spec.md section 7).         *)
(***************************************************************************)
\* C21: when PINECONE_API_KEY, AZURE_OPENAI_ENDPOINT or
\* OPENAI_EMBEDDING_TEST_KEY is unset or empty, the run never gets past the
\* settings check: no client is created, no index is created, and no sync,
\* embedding, upsert or query call is made.
C21_MissingSettingStopsEverything ==
    (\E var \in required_env_vars : env[var] \in {"unset", "empty"})
        => /\ app_pc \in {"start", "stopped"}
           /\ clients = {}
           /\ created = 0
           /\ calls = 0
           /\ embed_calls = 0
           /\ upsert_log = <<>>
           /\ query_calls = 0
           /\ top_k = 0

\* the run has stopped on an empty PINECONE_API_KEY, the other two set
C21_Witness ==
    /\ env["PINECONE_API_KEY"] = "empty"
    /\ env["AZURE_OPENAI_ENDPOINT"] = "set"
    /\ env["OPENAI_EMBEDDING_TEST_KEY"] = "set"
    /\ app_pc = "stopped"
    /\ catalog # <<>>

(***************************************************************************)
(* Properties of the chat application.                                     *)
(***************************************************************************)
\* C30: after every run of the chat script the history alternates: its odd
\* entries are user messages, its even entries assistant messages, and no
\* user message is left at the end without an assistant message after it.
C30_HistoryAlternates ==
    /\ \A n \in 1..Len(messages) :
           messages[n].role = IF n % 2 = 1 THEN "user" ELSE "assistant"
    /\ Len(messages) % 2 = 0

====
